---- MODULE Spec2Model ----
(***************************************************************************)
(* Model of the ping scheduling and reconciliation engine of ip-monitor:   *)
(*   services/pingService.js  (pingInWorker, processBatchWithRetry,        *)
(*                             updatePingResults, runPingCycle,            *)
(*                             terminateWorkers)                           *)
(*   workers/pingWorker.js    (pingIP, processIPs)                         *)
(*   models/IP.js, models/Downtime.js (bulkUpdateStatus, recordDowntime,   *)
(*                             updateDuration)                             *)
(*   server.js                (startPingService, gracefulShutdown)         *)
(*   controllers/ipController.js (createIP, deleteIP, updateIP)            *)
(*                                                                         *)
(* Every await of the JavaScript code is a point where other callbacks of  *)
(* the event loop (another cycle, an HTTP handler, a worker event) may run;*)
(* the model has one action per storage call or event, and the code that   *)
(* runs synchronously after it belongs to the same action.                 *)
(***************************************************************************)
EXTENDS Integers, Sequences, FiniteSets, TLC

\* ------------------------------------------------------------------ bounds
NumAddr     == 2    \* addresses that can be registered
MaxCycles   == 2    \* calls of runPingCycle made by the driver
MaxFailures == 1    \* storage calls that fail
MaxHttpOps  == 1    \* create / delete requests served
MaxWorkerFailures == 3  \* worker attempts that end in an error or a bad exit
MaxTargets  == 8    \* partitioning on its own: length of the target list
MaxPool     == 4    \* partitioning on its own: largest maxWorkers
MaxBatch    == 4    \* partitioning on its own: largest maxBatchSize
MaxOutcomes == 3    \* updatePingResults on its own: length of the outcome list

\* ------------------------------------------------------- configuration
WORKER_COUNT   == 2   \* config.WORKER_COUNT
MAX_BATCH_SIZE == 1   \* config.MAX_BATCH_SIZE
DefaultRetries == 2   \* processBatchWithRetry(batch, retries = 2)

NULL == -1            \* JavaScript null, for dates, durations and latencies

Addr   == 1..NumAddr
Cycles == 1..MaxCycles

VARIABLES
    ips,            \* IP collection: address -> row
    downtimes,      \* Downtime collection: per address, its events in
                    \* insertion order; _id = (address, index)
    now,            \* the clock, in units of PING_INTERVAL
    pingInterval,   \* server.js pingInterval: "unset" | "armed"
    nextCycle,      \* the next call of runPingCycle the driver will make
    pc,             \* per call of runPingCycle: where it is suspended
    settled,        \* per call: state of the promise runPingCycle returned
    result,         \* per call: the value the promise fulfilled with
    ipAddresses,    \* per call: runPingCycle's ipAddresses
    batches,        \* per call: runPingCycle's batches
    batchState,     \* per call, per batch: processBatchWithRetry's progress
    results,        \* per call: updatePingResults's results
    currentStatusMap, \* per call: updatePingResults's currentStatusMap
    statusChanges,  \* per call: updatePingResults's statusChanges
    changeIdx,      \* per call: index of the change being handled
    changeStep,     \* per call: 1 = first storage call of the change, 2 = second
    latestDowntime, \* per call: updateDuration's latestDowntime and duration
    failures,       \* storage calls that failed so far
    httpOps,        \* create / delete requests served so far
    workerFailures, \* worker attempts that failed so far
    upDownSeen,     \* per address: Up-to-Down transitions whose handling
                    \* (event opened, target updated) was carried out
    before,         \* per call, per address: downtimeCount and number of
                    \* events when the call read the current status
    exhausted,      \* per call: some batch used up its retries
    activeWorkers,  \* pingService.js activeWorkers: the workers tracked,
                    \* each << call, batch, attempt >>
    shutdown,       \* server.js gracefulShutdown: "none" | "terminating" |
                    \* "closing" | "exited"
    terminating,    \* terminateWorkers: the workers whose 'exit' it awaits
    partitionArgs,  \* the partitioning code on its own: its inputs
    partitionOut,   \* the partitioning code on its own: its batches
    workerData,     \* pingWorker.js on its own: workerData.ipAddresses and
                    \* what the probe does for each of them
    posted,         \* pingWorker.js on its own: the message it posted
    lingering       \* the workers whose first event was handled and whose
                    \* 'exit' is still to come

vars == << ips, downtimes, now, pingInterval, nextCycle, pc, settled, result,
           ipAddresses, batches, batchState, results, currentStatusMap,
           statusChanges, changeIdx, changeStep, latestDowntime, failures,
           httpOps, workerFailures, upDownSeen, before, exhausted,
           activeWorkers, shutdown, terminating, partitionArgs, partitionOut,
           workerData, posted, lingering >>

\* --------------------------------------------------------------- helpers
Min(a, b) == IF a < b THEN a ELSE b

\* Math.ceil(a / b) for positive b
Ceil(a, b) == (a + b - 1) \div b

RECURSIVE Flat(_)
\* Array.prototype.flat() of an array of arrays
Flat(ss) == IF ss = << >> THEN << >> ELSE Head(ss) \o Flat(Tail(ss))

RECURSIVE SortedSeq(_)
\* the addresses of a set in ascending order
SortedSeq(S) ==
    IF S = {} THEN << >>
    ELSE LET m == CHOOSE x \in S : \A y \in S : x <= y
         IN  << m >> \o SortedSeq(S \ {m})

\* ------------------------------------------------------------ collections
\* ipSchema: a row as created by new IP({address, location}).save()
NewRow(t) == [ present       |-> TRUE,
               status        |-> "Unknown",
               downtimeCount |-> 0,
               lastDowntime  |-> NULL,
               lastChecked   |-> t,
               responseTime  |-> NULL ]

\* no document for the address
NoRow == [ present       |-> FALSE,
           status        |-> "Unknown",
           downtimeCount |-> 0,
           lastDowntime  |-> NULL,
           lastChecked   |-> NULL,
           responseTime  |-> NULL ]

\* IP.find({}, 'address status'): the addresses of all documents
FindAll(rows) == SortedSeq({ a \in Addr : rows[a].present })

\* Downtime.find({ipAddress: a, duration: null}): the open events of a
OpenEvents(evs, a) ==
    { i \in 1..Len(evs[a]) : evs[a][i].duration = NULL }

\* ------------------------------------------------------------ pingWorker
\* what ping.promise.probe can do for one address
Probes == { [ alive |-> TRUE,  time |-> 1,    throws |-> FALSE ],
            [ alive |-> FALSE, time |-> NULL, throws |-> FALSE ],
            [ alive |-> FALSE, time |-> NULL, throws |-> TRUE  ] }

\* mutant of pingIP: the catch block returns the outcome without the
\* error's message
pingIPSilent(ipAddress, probe) ==
    IF probe.throws
    THEN [ address |-> ipAddress, alive |-> FALSE, time |-> NULL,
           error |-> "null" ]
    ELSE [ address |-> ipAddress, alive |-> probe.alive, time |-> probe.time,
           error |-> IF probe.alive THEN "null" ELSE "probe error" ]

\* pingIP: one outcome for the address, whatever the probe did
pingIP(ipAddress, probe) ==
    IF probe.throws
    THEN [ address |-> ipAddress, alive |-> FALSE, time |-> NULL,
           error |-> "probe error" ]
    ELSE [ address |-> ipAddress, alive |-> probe.alive, time |-> probe.time,
           error |-> IF probe.alive THEN "null" ELSE "probe error" ]

\* mutant of processIPs: the outcomes of the hosts that did not answer are
\* left out of the message
processIPsAnswered(batch, probes) ==
    SelectSeq([ i \in 1..Len(batch) |-> pingIP(batch[i], probes[i]) ],
              LAMBDA r : r.alive)

\* processIPs: the message the worker posts for its batch. Its catch block
\* cannot be entered: pingIP returns an outcome on every path, so Promise.all
\* does not reject, and the outcomes are plain data that postMessage accepts.
processIPs(batch, probes) ==
    [ i \in 1..Len(batch) |-> pingIP(batch[i], probes[i]) ]

\* ----------------------------------------------------------- pingService
\* mutant of SyntheticOutcomes: nothing is returned for the failed batch
SyntheticOutcomesNone(batch) == << >>

\* processBatchWithRetry, all retries failed: one outcome per address
SyntheticOutcomes(batch) ==
    [ i \in 1..Len(batch) |->
        [ address |-> batch[i], alive |-> FALSE, time |-> NULL,
          error |-> "Worker thread failed after retries" ] ]

\* mutant of Partition: the loop steps by batchSize + 1 and skips an address
PartitionSkipping(addresses) ==
    LET ipCount            == Len(addresses)
        optimalWorkerCount == Min(WORKER_COUNT, Ceil(ipCount, MAX_BATCH_SIZE))
        batchSize          == Ceil(ipCount, optimalWorkerCount)
        count              == Ceil(ipCount, batchSize + 1)
    IN  [ k \in 1..count |->
            SubSeq(addresses, (k - 1) * (batchSize + 1) + 1,
                   Min((k - 1) * (batchSize + 1) + batchSize, ipCount)) ]

\* runPingCycle: Math.min(maxWorkers, Math.ceil(ipCount / maxBatchSize))
OptimalWorkerCount(ipCount, maxWorkers, maxBatchSize) ==
    Min(maxWorkers, Ceil(ipCount, maxBatchSize))

\* mutant of BatchSizeOf: Math.floor in place of Math.ceil
BatchSizeFloor(ipCount, optimalWorkerCount) ==
    ipCount \div optimalWorkerCount

\* runPingCycle: batchSize = Math.ceil(ipCount / optimalWorkerCount)
BatchSizeOf(ipCount, optimalWorkerCount) ==
    Ceil(ipCount, optimalWorkerCount)

RECURSIVE Slices(_, _, _)
\* runPingCycle: for (let i = 0; i < ipCount; i += batchSize)
\*                 batches.push(ipAddresses.slice(i, i + batchSize))
Slices(addresses, i, batchSize) ==
    IF i >= Len(addresses) THEN << >>
    ELSE << SubSeq(addresses, i + 1, Min(i + batchSize, Len(addresses))) >>
         \o Slices(addresses, i + batchSize, batchSize)

\* runPingCycle: the batches made of a list of addresses under a
\* configuration of maxWorkers and maxBatchSize
PartitionOf(addresses, maxWorkers, maxBatchSize) ==
    LET ipCount            == Len(addresses)
        optimalWorkerCount == OptimalWorkerCount(ipCount, maxWorkers,
                                                 maxBatchSize)
        batchSize          == BatchSizeOf(ipCount, optimalWorkerCount)
    IN  Slices(addresses, 0, batchSize)

\* runPingCycle: the batches made of the loaded addresses
Partition(addresses) == PartitionOf(addresses, WORKER_COUNT, MAX_BATCH_SIZE)

\* processBatchWithRetry(batch): first attempt, worker spawned
FreshBatch ==
    [ status |-> "running", retries |-> DefaultRetries, failed |-> 0,
      out |-> << >> ]

\* runPingCycle: Promise.all(batchPromises) has fulfilled
AllSettled(c) ==
    \A b \in 1..Len(batchState[c]) : batchState[c][b].status = "settled"

\* runPingCycle: batchResults.flat()
FlatResults(c) ==
    Flat([ b \in 1..Len(batchState[c]) |-> batchState[c][b].out ])

\* updatePingResults / bulkUpdateStatus: alive ? 'Up' : 'Down'
NewStatus(r) == IF r.alive THEN "Up" ELSE "Down"

\* updatePingResults: currentStatusMap.get(address); "undefined" when the
\* find returned no document for it
StatusMapOf(rows, rs) ==
    [ a \in { rs[i].address : i \in 1..Len(rs) } |->
        IF rows[a].present THEN rows[a].status ELSE "undefined" ]

\* mutant of DetectChanges: a target that was never checked (status
\* Unknown) yields no change
DetectChangesKnown(rs, map) ==
    LET changed == SelectSeq([ i \in 1..Len(rs) |-> i ],
                     LAMBDA i : /\ map[rs[i].address] \notin { "undefined", "Unknown" }
                                /\ map[rs[i].address] # NewStatus(rs[i]))
    IN  [ k \in 1..Len(changed) |->
            [ address |-> rs[changed[k]].address,
              from    |-> map[rs[changed[k]].address],
              to      |-> NewStatus(rs[changed[k]]) ] ]

RECURSIVE DetectChanges(_, _)
\* updatePingResults: the results.forEach that fills statusChanges
DetectChanges(rs, map) ==
    IF rs = << >> THEN << >>
    ELSE LET r             == Head(rs)
             currentStatus == map[r.address]
             newStatus     == NewStatus(r)
         IN  ( IF currentStatus # "undefined" /\ currentStatus # newStatus
               THEN << [ address |-> r.address, from |-> currentStatus,
                         to |-> newStatus ] >>
               ELSE << >> )
             \o DetectChanges(Tail(rs), map)

\* updatePingResults: does the loop body await anything for this change
Actionable(change) ==
    \/ change.to = "Down"
    \/ change.to = "Up" /\ change.from = "Down"

RECURSIVE NextChange(_, _)
\* the first change at or after index i that awaits a storage call
NextChange(changes, i) ==
    IF i > Len(changes) THEN i
    ELSE IF Actionable(changes[i]) THEN i
    ELSE NextChange(changes, i + 1)

\* mutant of BulkInc: the counter is incremented for every update
BulkIncAlways(update) == IF update.alive THEN 1 ELSE 1

\* bulkUpdateStatus: the $inc of one update
BulkInc(update) == IF update.alive THEN 0 ELSE 1

\* mutant of ApplyUpdateOne: lastDowntime is under $set, not $setOnInsert
ApplyUpdateOneStamps(rows, update, t) ==
    IF rows[update.address].present
    THEN [ rows EXCEPT ![update.address] =
             [ @ EXCEPT !.status        = NewStatus(update),
                        !.lastChecked   = t,
                        !.responseTime  = IF update.time = NULL \/ update.time = 0
                                          THEN NULL ELSE update.time,
                        !.lastDowntime  = IF update.alive THEN @ ELSE t,
                        !.downtimeCount = @ + BulkInc(update) ] ]
    ELSE rows

\* mutant of ApplyUpdateOne: the updateOne is an upsert
ApplyUpdateOneUpsert(rows, update, t) ==
    [ rows EXCEPT ![update.address] =
        [ ( IF @.present THEN @ ELSE NewRow(t) ) EXCEPT
            !.status        = NewStatus(update),
            !.lastChecked   = t,
            !.responseTime  = IF update.time = NULL \/ update.time = 0
                              THEN NULL ELSE update.time,
            !.downtimeCount = @ + BulkInc(update) ] ]

\* bulkUpdateStatus: one updateOne applied to the collection
ApplyUpdateOne(rows, update, t) ==
    IF rows[update.address].present
    THEN [ rows EXCEPT ![update.address] =
             [ @ EXCEPT !.status        = NewStatus(update),
                        !.lastChecked   = t,
                        !.responseTime  = IF update.time = NULL \/ update.time = 0
                                          THEN NULL ELSE update.time,
                        !.downtimeCount = @ + BulkInc(update) ] ]
    ELSE rows

\* mutant of ApplyBulk: every target without an outcome alive=true is set
\* Down, the targets that have no outcome included
ApplyBulkAll(rows, updates, t) ==
    [ a \in Addr |->
        IF rows[a].present
        THEN [ rows[a] EXCEPT
                 !.lastChecked = t,
                 !.status = IF \E i \in 1..Len(updates) :
                                  updates[i].address = a /\ updates[i].alive
                            THEN "Up" ELSE "Down" ]
        ELSE rows[a] ]

RECURSIVE ApplyBulk(_, _, _)
\* bulkUpdateStatus: bulkWrite of one updateOne per update
ApplyBulk(rows, updates, t) ==
    IF updates = << >> THEN rows
    ELSE ApplyBulk(ApplyUpdateOne(rows, Head(updates), t), Tail(updates), t)

\* runPingCycle: the value returned after a successful reconciliation
CycleResult(c) ==
    [ total     |-> Len(ipAddresses[c]),
      processed |-> Len(results[c]),
      changes   |-> Len(statusChanges[c]),
      up        |-> Cardinality({ i \in 1..Len(results[c]) : results[c][i].alive }),
      down      |-> Cardinality({ i \in 1..Len(results[c]) : ~results[c][i].alive }),
      error     |-> "null" ]

\* mutant of EmptyResult: the early return gives no counts
EmptyResultNothing ==
    [ total |-> NULL, processed |-> NULL, changes |-> NULL, up |-> NULL,
      down |-> NULL, error |-> "null" ]

\* runPingCycle: the value returned when there is nothing to ping
EmptyResult ==
    [ total |-> 0, processed |-> 0, changes |-> NULL, up |-> NULL,
      down |-> NULL, error |-> "null" ]

\* mutant of ErrorResult: the catch block drops the error
ErrorResultSwallowed(message) ==
    [ total |-> 0, processed |-> 0, changes |-> NULL, up |-> NULL,
      down |-> NULL, error |-> "null" ]

\* runPingCycle: the value returned by its catch block
ErrorResult(message) ==
    [ total |-> 0, processed |-> 0, changes |-> NULL, up |-> NULL,
      down |-> NULL, error |-> message ]

\* no value yet
NoResult ==
    [ total |-> NULL, processed |-> NULL, changes |-> NULL, up |-> NULL,
      down |-> NULL, error |-> "null" ]

\* mutant of CatchSettles: the catch block rethrows
CatchRethrows == "rejected"

\* runPingCycle: how its promise settles when the try block throws
CatchSettles == "fulfilled"

\* updateDuration: nothing found yet
NoLatest == [ id |-> 0, duration |-> NULL ]

\* ------------------------------------------------------------------ Init
\* The collections as an earlier run can have left them: every address is
\* unregistered, or registered and Up (found alive by its only check so far).
\* A registered address that was never checked comes from createIP.
InitRows ==
    { NoRow, [ NewRow(0) EXCEPT !.status = "Up", !.responseTime = 1 ] }

\* nothing has run yet: no call of runPingCycle, no worker, no signal; the
\* process starts at time 0
InitCalls ==
    /\ now = 0
    /\ pingInterval = "unset"
    /\ nextCycle = 1
    /\ pc = [ c \in Cycles |-> "idle" ]
    /\ settled = [ c \in Cycles |-> "pending" ]
    /\ result = [ c \in Cycles |-> NoResult ]
    /\ ipAddresses = [ c \in Cycles |-> << >> ]
    /\ batches = [ c \in Cycles |-> << >> ]
    /\ batchState = [ c \in Cycles |-> << >> ]
    /\ results = [ c \in Cycles |-> << >> ]
    /\ currentStatusMap = [ c \in Cycles |-> << >> ]
    /\ statusChanges = [ c \in Cycles |-> << >> ]
    /\ changeIdx = [ c \in Cycles |-> 0 ]
    /\ changeStep = [ c \in Cycles |-> 0 ]
    /\ latestDowntime = [ c \in Cycles |-> NoLatest ]
    /\ failures = 0
    /\ httpOps = 0
    /\ workerFailures = 0
    /\ upDownSeen = [ a \in Addr |-> 0 ]
    /\ before = [ c \in Cycles |-> << >> ]
    /\ exhausted = [ c \in Cycles |-> FALSE ]
    /\ activeWorkers = {}
    /\ shutdown = "none"
    /\ terminating = {}
    /\ lingering = {}

\* no downtime event yet, and nothing has run
InitEngine ==
    /\ downtimes = [ a \in Addr |-> << >> ]
    /\ InitCalls

\* the partitioning code is not looked at on its own
NoPartitionRun ==
    /\ partitionArgs = << >>
    /\ partitionOut = << >>

\* the worker script is not looked at on its own
NoWorkerRun ==
    /\ workerData = << >>
    /\ posted = << >>

Init ==
    /\ ips \in [ Addr -> InitRows ]
    /\ InitEngine
    /\ NoPartitionRun
    /\ NoWorkerRun

driver  == << now, pingInterval, nextCycle >>
promise == << settled, result >>
dispatchLocals == << ipAddresses, batches, batchState >>
reconcileLocals == << results, currentStatusMap, statusChanges, changeIdx,
                      changeStep, latestDowntime >>
budgets == << failures, httpOps, workerFailures >>
history == << upDownSeen, before, exhausted >>
lifecycle == << shutdown, terminating >>
partitioner == << partitionArgs, partitionOut >>
prober == << workerData, posted >>

\* ---------------------------------------------------------------- driver
\* server.js startPingService: the immediate cycle and setInterval
StartPingService ==
    /\ pingInterval = "unset"
    /\ pingInterval' = "armed"
    /\ pc' = [ pc EXCEPT ![nextCycle] = "loading" ]
    /\ nextCycle' = nextCycle + 1
    /\ UNCHANGED << ips, downtimes, now, promise, dispatchLocals,
                    reconcileLocals, budgets, history >>
    /\ UNCHANGED << activeWorkers, lifecycle, partitioner, prober, lingering >>

\* server.js: the setInterval callback, one PING_INTERVAL later; it calls
\* runPingCycle whatever the state of the earlier calls
TimerFire ==
    /\ pingInterval = "armed"
    /\ nextCycle <= MaxCycles
    /\ now' = now + 1
    /\ pc' = [ pc EXCEPT ![nextCycle] = "loading" ]
    /\ nextCycle' = nextCycle + 1
    /\ UNCHANGED << ips, downtimes, pingInterval, promise, dispatchLocals,
                    reconcileLocals, budgets, history >>
    /\ UNCHANGED << activeWorkers, lifecycle, partitioner, prober, lingering >>

\* ----------------------------------------------------------- runPingCycle
\* the promise of call c settles with value v; its locals are dropped
Settle(c, how, v) ==
    /\ pc' = [ pc EXCEPT ![c] = "done" ]
    /\ settled' = [ settled EXCEPT ![c] = how ]
    /\ result' = [ result EXCEPT ![c] = v ]
    /\ ipAddresses' = [ ipAddresses EXCEPT ![c] = << >> ]
    /\ batches' = [ batches EXCEPT ![c] = << >> ]
    /\ batchState' = [ batchState EXCEPT ![c] = << >> ]
    /\ results' = [ results EXCEPT ![c] = << >> ]
    /\ currentStatusMap' = [ currentStatusMap EXCEPT ![c] = << >> ]
    /\ statusChanges' = [ statusChanges EXCEPT ![c] = << >> ]
    /\ changeIdx' = [ changeIdx EXCEPT ![c] = 0 ]
    /\ changeStep' = [ changeStep EXCEPT ![c] = 0 ]
    /\ latestDowntime' = [ latestDowntime EXCEPT ![c] = NoLatest ]
    /\ before' = [ before EXCEPT ![c] = << >> ]

\* runPingCycle: IP.find({}) returns; partition and dispatch, or return
LoadTargets(c) ==
    /\ pc[c] = "loading"
    /\ LET addresses == FindAll(ips) IN
         IF addresses = << >>
         THEN /\ Settle(c, "fulfilled", EmptyResult)
              /\ UNCHANGED activeWorkers
         ELSE /\ activeWorkers' = activeWorkers \cup
                     { << c, b, 1 >> : b \in 1..Len(Partition(addresses)) }
              /\ ipAddresses' = [ ipAddresses EXCEPT ![c] = addresses ]
              /\ batches' = [ batches EXCEPT ![c] = Partition(addresses) ]
              /\ batchState' = [ batchState EXCEPT ![c] =
                     [ b \in 1..Len(Partition(addresses)) |-> FreshBatch ] ]
              /\ pc' = [ pc EXCEPT ![c] = "awaiting" ]
              /\ UNCHANGED << promise, reconcileLocals, before >>
    /\ UNCHANGED << ips, downtimes, driver, budgets, upDownSeen, exhausted >>
    /\ UNCHANGED << lifecycle, partitioner, prober, lingering >>

\* pingInWorker: the worker of the current attempt of batch b
WorkerOf(c, b) == << c, b, batchState[c][b].failed + 1 >>

\* mutant of Returned: a batch whose hosts are all down is run again while
\* retries are left
ReturnedOrRetried(bs, out) ==
    IF bs.retries > 0 /\ \A i \in 1..Len(out) : ~out[i].alive
    THEN [ bs EXCEPT !.retries = @ - 1 ]
    ELSE [ bs EXCEPT !.status = "settled", !.out = out ]

\* processBatchWithRetry: return await pingInWorker(batch), when the promise
\* is fulfilled with the outcomes
Returned(bs, out) == [ bs EXCEPT !.status = "settled", !.out = out ]

\* pingInWorker: the 'message' listener runs for the worker of batch b:
\* the worker is deleted from activeWorkers and the promise is fulfilled
MessageHandled(c, b) ==
    /\ pc[c] = "awaiting"
    /\ b \in 1..Len(batchState[c])
    /\ batchState[c][b].status = "running"
    /\ \E probes \in [ 1..Len(batches[c][b]) -> Probes ] :
         batchState' = [ batchState EXCEPT ![c][b] =
             Returned(@, processIPs(batches[c][b], probes)) ]
    /\ activeWorkers' = activeWorkers \ { WorkerOf(c, b) }
    /\ UNCHANGED << ips, downtimes, driver, pc, promise, ipAddresses, batches,
                    reconcileLocals, budgets, history >>
    /\ UNCHANGED << lifecycle, partitioner, prober >>

\* pingInWorker: the worker of batch b posts its results
WorkerMessage(c, b) == MessageHandled(c, b) /\ UNCHANGED lingering

\* mutant of MayRetry: the budget is never looked at
MayRetryAlways(retries) == retries > retries - 1

\* processBatchWithRetry: if (retries > 0)
MayRetry(retries) == retries > 0

\* mutant of Catch: when the retries of one batch are used up, every batch
\* of the cycle that is still running is given up as well
CatchAbortsAll(c, b) ==
    /\ batchState' = [ batchState EXCEPT ![c] =
         IF MayRetry(@[b].retries)
         THEN [ @ EXCEPT ![b] = [ @ EXCEPT !.retries = @ - 1,
                                            !.failed = @ + 1 ] ]
         ELSE [ k \in 1..Len(@) |->
                  IF @[k].status = "running"
                  THEN [ @[k] EXCEPT !.status = "settled",
                                     !.failed = IF k = b THEN @ + 1 ELSE @,
                                     !.out = SyntheticOutcomes(batches[c][k]) ]
                  ELSE @[k] ] ]
    /\ activeWorkers' =
         IF MayRetry(batchState[c][b].retries)
         THEN ( activeWorkers \ { WorkerOf(c, b) } ) \cup
                { << c, b, batchState[c][b].failed + 2 >> }
         ELSE { w \in activeWorkers : w[1] # c }
    /\ exhausted' = [ exhausted EXCEPT ![c] =
         @ \/ ~MayRetry(batchState[c][b].retries) ]

\* processBatchWithRetry: the catch block, for batch b of call c: a new
\* attempt, or the synthetic outcomes
CatchBatch(c, b) ==
    /\ batchState' = [ batchState EXCEPT ![c][b] =
         IF MayRetry(@.retries)
         THEN [ @ EXCEPT !.retries = @ - 1, !.failed = @ + 1 ]
         ELSE [ @ EXCEPT !.status = "settled", !.failed = @ + 1,
                         !.out = SyntheticOutcomes(batches[c][b]) ] ]
    /\ exhausted' = [ exhausted EXCEPT ![c] =
         @ \/ ~MayRetry(batchState[c][b].retries) ]

\* activeWorkers after pingInWorker rejected and the catch block ran: the
\* failed worker deleted, the worker of the new attempt added
AfterCatch(c, b) ==
    ( activeWorkers \ { WorkerOf(c, b) } ) \cup
    ( IF MayRetry(batchState[c][b].retries)
      THEN { << c, b, batchState[c][b].failed + 2 >> } ELSE {} )

\* pingInWorker rejects (the worker is dropped from activeWorkers) and the
\* catch block of processBatchWithRetry runs: a new attempt with a new
\* worker, or the synthetic outcomes
Catch(c, b) ==
    /\ CatchBatch(c, b)
    /\ activeWorkers' = AfterCatch(c, b)

\* pingInWorker: the 'error' listener, or the 'exit' listener with a
\* non-zero code, runs for the worker of batch b: the worker is deleted from
\* activeWorkers, the promise is rejected and the catch block runs
RejectHandled(c, b) ==
    /\ pc[c] = "awaiting"
    /\ b \in 1..Len(batchState[c])
    /\ batchState[c][b].status = "running"
    /\ workerFailures < MaxWorkerFailures
    /\ workerFailures' = workerFailures + 1
    /\ Catch(c, b)
    /\ UNCHANGED << ips, downtimes, driver, pc, promise, ipAddresses, batches,
                    reconcileLocals, failures, httpOps, upDownSeen, before >>
    /\ UNCHANGED << lifecycle, partitioner, prober >>

\* pingInWorker rejects on a worker's 'error' or bad 'exit'
RejectAttempt(c, b) == RejectHandled(c, b) /\ UNCHANGED lingering

\* pingInWorker: the worker emits 'error'
WorkerError(c, b) == RejectAttempt(c, b)

\* pingInWorker: the worker exits with a non-zero code before any message
WorkerExit(c, b) == RejectAttempt(c, b)

\* mutant of Barrier: the code goes on when the first batch has settled
BarrierAny(c) ==
    \E b \in 1..Len(batchState[c]) : batchState[c][b].status = "settled"

\* runPingCycle: may the code after await Promise.all(batchPromises) run
Barrier(c) == AllSettled(c)

\* after the change at index i - 1: the next change, or the bulk update
Advance(c, changes, i) ==
    LET j == NextChange(changes, i) IN
    /\ changeIdx' = [ changeIdx EXCEPT ![c] = j ]
    /\ changeStep' = [ changeStep EXCEPT ![c] = 1 ]
    /\ pc' = [ pc EXCEPT ![c] = IF j > Len(changes) THEN "bulk" ELSE "changes" ]

\* updatePingResults: IP.find({address: {$in: ...}}) returns; the forEach
FindCurrentStatus(c) ==
    /\ pc[c] = "awaiting"
    /\ Barrier(c)
    /\ LET rs  == FlatResults(c)
           map == StatusMapOf(ips, rs)
           ch  == DetectChanges(rs, map)
       IN  /\ results' = [ results EXCEPT ![c] = rs ]
           /\ currentStatusMap' = [ currentStatusMap EXCEPT ![c] = map ]
           /\ statusChanges' = [ statusChanges EXCEPT ![c] = ch ]
           /\ Advance(c, ch, 1)
    /\ before' = [ before EXCEPT ![c] =
         [ a \in Addr |-> [ downtimeCount |-> ips[a].downtimeCount,
                            events |-> Len(downtimes[a]) ] ] ]
    /\ UNCHANGED << ips, downtimes, driver, promise, dispatchLocals,
                    latestDowntime, budgets, upDownSeen, exhausted >>
    /\ UNCHANGED << activeWorkers, lifecycle, partitioner, prober, lingering >>

\* updatePingResults: the change of the for loop's current iteration
CurrentChange(c) == statusChanges[c][changeIdx[c]]

\* Downtime.recordDowntime(change.address)
RecordDowntime(c) ==
    /\ pc[c] = "changes"
    /\ changeStep[c] = 1
    /\ CurrentChange(c).to = "Down"
    /\ downtimes' = [ downtimes EXCEPT ![CurrentChange(c).address] =
          Append(@, [ timestamp |-> now, duration |-> NULL ]) ]
    /\ changeStep' = [ changeStep EXCEPT ![c] = 2 ]
    /\ UNCHANGED << ips, driver, pc, promise, dispatchLocals, results,
                    currentStatusMap, statusChanges, changeIdx,
                    latestDowntime, budgets, history >>
    /\ UNCHANGED << activeWorkers, lifecycle, partitioner, prober, lingering >>

\* IP.findOneAndUpdate({address}, {lastDowntime, $inc: {downtimeCount: 1}})
IncDowntimeCount(c) ==
    /\ pc[c] = "changes"
    /\ changeStep[c] = 2
    /\ CurrentChange(c).to = "Down"
    /\ LET a == CurrentChange(c).address IN
         ips' = IF ips[a].present
                THEN [ ips EXCEPT ![a] =
                         [ @ EXCEPT !.lastDowntime = now,
                                    !.downtimeCount = @ + 1 ] ]
                ELSE ips
    /\ upDownSeen' = [ upDownSeen EXCEPT ![CurrentChange(c).address] =
          IF CurrentChange(c).from = "Up" /\ ips[CurrentChange(c).address].present
          THEN @ + 1 ELSE @ ]
    /\ Advance(c, statusChanges[c], changeIdx[c] + 1)
    /\ UNCHANGED << downtimes, driver, promise, dispatchLocals, results,
                    currentStatusMap, statusChanges, latestDowntime, budgets,
                    before, exhausted >>
    /\ UNCHANGED << activeWorkers, lifecycle, partitioner, prober, lingering >>

\* mutant of DurationOf: the start of the event is not subtracted
DurationSinceEpoch(ev, t) == t

\* updateDuration: Date.now() - latestDowntime.timestamp.getTime()
DurationOf(ev, t) == t - ev.timestamp

\* mutant of NothingOpen: the update is an upsert, which inserts an event
\* when it finds none
NothingOpenUpserts(c) ==
    /\ Advance(c, statusChanges[c], changeIdx[c] + 1)
    /\ downtimes' = [ downtimes EXCEPT ![CurrentChange(c).address] =
          Append(@, [ timestamp |-> now, duration |-> 0 ]) ]
    /\ UNCHANGED latestDowntime

\* Downtime.updateDuration: if (!latestDowntime) return {updated: false};
\* the loop of updatePingResults goes on
NothingOpen(c) ==
    /\ Advance(c, statusChanges[c], changeIdx[c] + 1)
    /\ UNCHANGED << latestDowntime, downtimes >>

\* Downtime.updateDuration: findOne({ipAddress, duration: null}) latest first
FindLatestDowntime(c) ==
    /\ pc[c] = "changes"
    /\ changeStep[c] = 1
    /\ CurrentChange(c).to = "Up"
    /\ LET a    == CurrentChange(c).address
           open == OpenEvents(downtimes, a)
       IN  IF open = {}
           THEN NothingOpen(c)
           ELSE /\ \E i \in open :
                     /\ \A j \in open :
                          downtimes[a][j].timestamp <= downtimes[a][i].timestamp
                     /\ latestDowntime' = [ latestDowntime EXCEPT ![c] =
                          [ id |-> i,
                            duration |-> DurationOf(downtimes[a][i], now) ] ]
                /\ changeStep' = [ changeStep EXCEPT ![c] = 2 ]
                /\ UNCHANGED << pc, changeIdx, downtimes >>
    /\ UNCHANGED << ips, driver, promise, dispatchLocals, results,
                    currentStatusMap, statusChanges, budgets, history >>
    /\ UNCHANGED << activeWorkers, lifecycle, partitioner, prober, lingering >>

\* Downtime.updateDuration: findByIdAndUpdate(latestDowntime._id, {duration})
WriteDuration(c) ==
    /\ pc[c] = "changes"
    /\ changeStep[c] = 2
    /\ CurrentChange(c).to = "Up"
    /\ downtimes' = [ downtimes EXCEPT
          ![CurrentChange(c).address][latestDowntime[c].id].duration =
              latestDowntime[c].duration ]
    /\ Advance(c, statusChanges[c], changeIdx[c] + 1)
    /\ UNCHANGED << ips, driver, promise, dispatchLocals, results,
                    currentStatusMap, statusChanges, latestDowntime, budgets,
                    history >>
    /\ UNCHANGED << activeWorkers, lifecycle, partitioner, prober, lingering >>

\* IP.bulkUpdateStatus(results) returns; runPingCycle returns its counts
BulkUpdateStatus(c) ==
    /\ pc[c] = "bulk"
    /\ ips' = ApplyBulk(ips, results[c], now)
    /\ Settle(c, "fulfilled", CycleResult(c))
    /\ UNCHANGED << downtimes, driver, budgets, upDownSeen, exhausted >>
    /\ UNCHANGED << activeWorkers, lifecycle, partitioner, prober, lingering >>

\* a storage call of the cycle is pending
StoragePending(c) ==
    \/ pc[c] \in { "loading", "changes", "bulk" }
    \/ pc[c] = "awaiting" /\ Barrier(c)

\* error.message of the pending storage call, should it reject
StorageError(c) ==
    IF pc[c] = "loading" THEN "IP.find failed" ELSE "storage error"

\* the pending storage call rejects: updatePingResults rethrows, and the
\* catch block of runPingCycle returns the error as a value
StorageFail(c) ==
    /\ StoragePending(c)
    /\ failures < MaxFailures
    /\ failures' = failures + 1
    /\ Settle(c, CatchSettles, ErrorResult(StorageError(c)))
    /\ UNCHANGED << ips, downtimes, driver, httpOps, workerFailures,
                    upDownSeen, exhausted >>
    /\ UNCHANGED << activeWorkers, lifecycle, partitioner, prober, lingering >>

\* ------------------------------------------------------------ ipController
\* createIP: POST /ips for an address that has no document
CreateIP(a) ==
    /\ ~ips[a].present
    /\ httpOps < MaxHttpOps
    /\ httpOps' = httpOps + 1
    /\ ips' = [ ips EXCEPT ![a] = NewRow(now) ]
    /\ upDownSeen' = [ upDownSeen EXCEPT ![a] = 0 ]
    /\ UNCHANGED << downtimes, driver, pc, promise, dispatchLocals,
                    reconcileLocals, failures, workerFailures, before,
                    exhausted >>
    /\ UNCHANGED << activeWorkers, lifecycle, partitioner, prober, lingering >>

\* deleteIP: DELETE /ips/:address; the downtime events are kept
DeleteIP(a) ==
    /\ ips[a].present
    /\ httpOps < MaxHttpOps
    /\ httpOps' = httpOps + 1
    /\ ips' = [ ips EXCEPT ![a] = NoRow ]
    /\ UNCHANGED << downtimes, driver, pc, promise, dispatchLocals,
                    reconcileLocals, failures, workerFailures, history >>
    /\ UNCHANGED << activeWorkers, lifecycle, partitioner, prober, lingering >>

\* ------------------------------------------------------------------ Next
Next ==
    \/ StartPingService
    \/ TimerFire
    \/ \E c \in Cycles : LoadTargets(c)
    \/ \E c \in Cycles : \E b \in 1..NumAddr : WorkerMessage(c, b)
    \/ \E c \in Cycles : \E b \in 1..NumAddr : WorkerError(c, b)
    \/ \E c \in Cycles : \E b \in 1..NumAddr : WorkerExit(c, b)
    \/ \E c \in Cycles : FindCurrentStatus(c)
    \/ \E c \in Cycles : RecordDowntime(c)
    \/ \E c \in Cycles : IncDowntimeCount(c)
    \/ \E c \in Cycles : FindLatestDowntime(c)
    \/ \E c \in Cycles : WriteDuration(c)
    \/ \E c \in Cycles : BulkUpdateStatus(c)
    \/ \E c \in Cycles : StorageFail(c)
    \/ \E a \in Addr : CreateIP(a)
    \/ \E a \in Addr : DeleteIP(a)

Spec == Init /\ [][Next]_vars

\* ------------------------------------- write errors and the update request
\* bodies of PUT /ips/:address: a new location only, or fields of the schema
\* that pass its validators (status in the enum, downtimeCount >= 0)
UpdateBodies ==
    { [ f \in {} |-> 0 ],
      [ f \in { "status" } |-> "Down" ],
      [ f \in { "status" } |-> "Unknown" ],
      [ f \in { "downtimeCount" } |-> 0 ],
      [ f \in { "lastDowntime" } |-> NULL ] }

\* findOneAndUpdate({address}, {$set: req.body}): the row after the $set
SetFields(row, body) ==
    [ f \in DOMAIN row |-> IF f \in DOMAIN body THEN body[f] ELSE row[f] ]

\* updateIP: PUT /ips/:address for an address that has a document
UpdateIP(a) ==
    /\ ips[a].present
    /\ httpOps < MaxHttpOps
    /\ httpOps' = httpOps + 1
    /\ \E body \in UpdateBodies :
         ips' = [ ips EXCEPT ![a] = SetFields(@, body) ]
    /\ UNCHANGED << downtimes, driver, pc, promise, dispatchLocals,
                    reconcileLocals, failures, workerFailures, history,
                    activeWorkers, lifecycle, partitioner, prober, lingering >>

\* the updates of a bulkWrite whose write did not fail
Without(updates, failing) ==
    SelectSeq(updates, LAMBDA u : u.address \notin failing)

\* bulkUpdateStatus: bulkWrite(bulkOps, {ordered: false}) applies the
\* updates that can be applied and rejects because the others failed;
\* bulkUpdateStatus and updatePingResults rethrow, runPingCycle's catch
\* block returns the error
BulkWriteError(c) ==
    /\ pc[c] = "bulk"
    /\ failures < MaxFailures
    /\ failures' = failures + 1
    /\ \E failing \in SUBSET { results[c][i].address : i \in 1..Len(results[c]) } :
         /\ failing # {}
         /\ ips' = ApplyBulk(ips, Without(results[c], failing), now)
    /\ Settle(c, CatchSettles, ErrorResult("bulkWrite failed"))
    /\ UNCHANGED << downtimes, driver, httpOps, workerFailures, upDownSeen,
                    exhausted, activeWorkers, lifecycle, partitioner, prober, lingering >>

\* the setInterval callback, in a run where every cycle returns within
\* PING_INTERVAL
TimerFireAfterReturn ==
    /\ \A c \in Cycles : pc[c] \in { "idle", "done" }
    /\ TimerFire

\* the engine with cycles that do not overlap and workers that do not fail,
\* together with write errors of the bulk update and the requests of the API
SerialNext ==
    \/ StartPingService
    \/ TimerFireAfterReturn
    \/ \E c \in Cycles : LoadTargets(c)
    \/ \E c \in Cycles : \E b \in 1..NumAddr : WorkerMessage(c, b)
    \/ \E c \in Cycles : FindCurrentStatus(c)
    \/ \E c \in Cycles : RecordDowntime(c)
    \/ \E c \in Cycles : IncDowntimeCount(c)
    \/ \E c \in Cycles : FindLatestDowntime(c)
    \/ \E c \in Cycles : WriteDuration(c)
    \/ \E c \in Cycles : BulkUpdateStatus(c)
    \/ \E c \in Cycles : BulkWriteError(c)
    \/ \E a \in Addr : CreateIP(a)
    \/ \E a \in Addr : DeleteIP(a)
    \/ \E a \in Addr : UpdateIP(a)

SerialSpec == Init /\ [][SerialNext]_vars

\* ---------------------------------------------------------------- shutdown
\* the process has not exited
Alive == shutdown # "exited"

\* terminateWorkers, after await Promise.all(promises): activeWorkers.clear();
\* gracefulShutdown goes on to server.close and the 10 s timeout
Cleared(workers) == {}

\* gracefulShutdown on SIGTERM or SIGINT (the handlers are registered when
\* server.js is loaded, before startServer runs): clearInterval if
\* pingInterval is set, then terminateWorkers up to its await, which calls
\* terminate() on every worker of activeWorkers and waits for their 'exit';
\* with no worker to wait for it goes on at once
Signal ==
    /\ shutdown = "none"
    /\ pingInterval' = IF pingInterval = "armed" THEN "cleared"
                       ELSE pingInterval
    /\ terminating' = activeWorkers
    /\ IF activeWorkers = {}
       THEN /\ shutdown' = "closing"
            /\ activeWorkers' = Cleared(activeWorkers)
       ELSE /\ shutdown' = "terminating"
            /\ UNCHANGED activeWorkers
    /\ UNCHANGED << ips, downtimes, now, nextCycle, pc, promise,
                    dispatchLocals, reconcileLocals, budgets, history,
                    partitioner, prober, lingering >>

\* worker w is the one its batch is waiting for
IsCurrent(w) ==
    /\ pc[w[1]] = "awaiting"
    /\ w[2] \in 1..Len(batchState[w[1]])
    /\ batchState[w[1]][w[2]].status = "running"
    /\ WorkerOf(w[1], w[2]) = w

\* the 'exit' event of a worker that terminateWorkers terminated, exit code
\* 1. pingInWorker's listener runs first: it deletes the worker and rejects,
\* and the catch block of processBatchWithRetry runs (unless the worker's
\* message had arrived before). terminateWorkers' listener resolves; after
\* the last of them terminateWorkers clears activeWorkers and returns.
TerminatedExit(w) ==
    /\ shutdown = "terminating"
    /\ w \in terminating
    /\ terminating' = terminating \ {w}
    /\ IF IsCurrent(w)
       THEN CatchBatch(w[1], w[2])
       ELSE UNCHANGED << batchState, exhausted >>
    /\ LET after == IF IsCurrent(w) THEN AfterCatch(w[1], w[2])
                    ELSE activeWorkers \ {w}
       IN  IF terminating = {w}
           THEN /\ activeWorkers' = Cleared(after)
                /\ shutdown' = "closing"
           ELSE /\ activeWorkers' = after
                /\ UNCHANGED shutdown
    /\ UNCHANGED << ips, downtimes, driver, pc, promise, ipAddresses, batches,
                    reconcileLocals, budgets, upDownSeen, before,
                    partitioner, prober, lingering >>

\* process.exit: in the callback of server.close after db.close, or in the
\* 10 s timeout set after terminateWorkers returned
ProcessExit ==
    /\ shutdown = "closing"
    /\ shutdown' = "exited"
    /\ UNCHANGED << ips, downtimes, driver, pc, promise, dispatchLocals,
                    reconcileLocals, budgets, history, activeWorkers,
                    terminating, partitioner, prober, lingering >>

\* the engine with cycles that return within PING_INTERVAL and workers that
\* fail only by being terminated, and the shutdown of the process
ShutdownNext ==
    \/ Alive /\ StartPingService
    \/ Alive /\ TimerFireAfterReturn
    \/ Alive /\ \E c \in Cycles : LoadTargets(c)
    \/ Alive /\ \E c \in Cycles : \E b \in 1..NumAddr : WorkerMessage(c, b)
    \/ Alive /\ \E c \in Cycles : FindCurrentStatus(c)
    \/ Alive /\ \E c \in Cycles : RecordDowntime(c)
    \/ Alive /\ \E c \in Cycles : IncDowntimeCount(c)
    \/ Alive /\ \E c \in Cycles : FindLatestDowntime(c)
    \/ Alive /\ \E c \in Cycles : WriteDuration(c)
    \/ Alive /\ \E c \in Cycles : BulkUpdateStatus(c)
    \/ Signal
    \/ \E w \in terminating : TerminatedExit(w)
    \/ ProcessExit

ShutdownSpec == Init /\ [][ShutdownNext]_vars

\* ------------------------------------------------- partitioning on its own
\* the default configuration (MAX_BATCH_SIZE 50, WORKER_COUNT 'auto' on a
\* machine with four or more cores) with 130 registered addresses
DefaultCase == [ n |-> 130, maxWorkers |-> 4, maxBatchSize |-> 50 ]

\* the configurations and list lengths looked at
PartitionCases ==
    { [ n |-> n, maxWorkers |-> w, maxBatchSize |-> m ] :
        n \in 1..MaxTargets, w \in 1..MaxPool, m \in 1..MaxBatch }
    \cup { DefaultCase }

\* IP.find({}, 'address status') returned n documents
TargetList(n) == [ i \in 1..n |-> i ]

PartitionInit ==
    /\ ips = [ a \in Addr |-> NoRow ]
    /\ InitEngine
    /\ partitionArgs \in PartitionCases
    /\ partitionOut = << >>
    /\ NoWorkerRun

\* runPingCycle: the lines that build batches, run on partitionArgs
RunPartition ==
    /\ partitionArgs # << >>
    /\ partitionOut = << >>
    /\ partitionOut' = PartitionOf(TargetList(partitionArgs.n),
                                   partitionArgs.maxWorkers,
                                   partitionArgs.maxBatchSize)
    /\ UNCHANGED << ips, downtimes, driver, pc, promise, dispatchLocals,
                    reconcileLocals, budgets, history, activeWorkers,
                    lifecycle, partitionArgs, prober, lingering >>

PartitionNext == RunPartition

PartitionSpec == PartitionInit /\ [][PartitionNext]_vars

\* ---------------------------------------------------------------- claims
\* the addresses of a list of outcomes, in order
AddressesOf(rs) == [ i \in 1..Len(rs) |-> rs[i].address ]

\* the list has no element twice
NoDuplicates(xs) ==
    \A i, j \in 1..Len(xs) : xs[i] = xs[j] => i = j

\* call c is inside updatePingResults
Reconciling(c) == pc[c] \in { "changes", "bulk" }

\* call c of runPingCycle has started and has not returned
InProgress(c) == pc[c] \notin { "idle", "done" }

\* C1. Coverage: the outcome list handed to updatePingResults holds exactly
\* one outcome per address the cycle loaded: as many outcomes as addresses,
\* no address twice, and the same set of addresses.
C1_Coverage ==
    \A c \in Cycles :
        Reconciling(c) =>
            /\ Len(results[c]) = Len(ipAddresses[c])
            /\ NoDuplicates(AddressesOf(results[c]))
            /\ { results[c][i].address : i \in 1..Len(results[c]) }
                 = { ipAddresses[c][i] : i \in 1..Len(ipAddresses[c]) }

\* C1 witness: a cycle that loaded two addresses reconciles; one of its
\* batches used up its retries and got synthetic outcomes, the other got a
\* worker's results with an address alive
C1_Witness ==
    \E c \in Cycles :
        /\ Reconciling(c)
        /\ Len(ipAddresses[c]) = 2
        /\ exhausted[c]
        /\ \E i \in 1..Len(results[c]) : results[c][i].alive

\* C2. For every address at most one downtime event is open (duration null).
C2_AtMostOneOpenEvent ==
    \A a \in Addr : Cardinality(OpenEvents(downtimes, a)) <= 1

\* C3. Cycles never overlap: at most one call of runPingCycle is in progress.
C3_CyclesNeverOverlap ==
    Cardinality({ c \in Cycles : InProgress(c) }) <= 1

\* the step is one of call c inside updatePingResults
ReconcileStep(c) ==
    /\ Reconciling(c)
    /\ << pc[c], changeIdx[c], changeStep[c] >>'
         # << pc[c], changeIdx[c], changeStep[c] >>

\* the step is the bulk update of call c, which returns its counts
BulkStep(c) ==
    /\ pc[c] = "bulk"
    /\ pc'[c] = "done"
    /\ result'[c].error = "null"

\* no call of runPingCycle is in progress
Quiescent == \A c \in Cycles : ~InProgress(c)

\* C4. Transition correctness: a cycle that read status Up for a target and
\* got alive=false for it has, when its reconciliation completes, increased
\* downtimeCount by exactly 1, set lastDowntime, and created exactly one new
\* downtime event, which is open.
C4_TransitionCorrectness ==
    [][ \A c \in Cycles : BulkStep(c) =>
          \A i \in 1..Len(results[c]) :
            LET a == results[c][i].address IN
            ( /\ currentStatusMap[c][a] = "Up"
              /\ ~results[c][i].alive
              /\ ips'[a].present )
            => /\ ips'[a].downtimeCount = before[c][a].downtimeCount + 1
               /\ ips'[a].lastDowntime # NULL
               /\ Len(downtimes'[a]) = before[c][a].events + 1
               /\ downtimes'[a][Len(downtimes'[a])].duration = NULL
      ]_vars

\* C5. Whenever no cycle is in progress, the downtimeCount of every target
\* equals the number of Up-to-Down transitions reconciled for it.
C5_CountEqualsTransitions ==
    Quiescent =>
        \A a \in Addr : ips[a].present => ips[a].downtimeCount = upDownSeen[a]

\* C6. Closure correctness: when updateDuration runs for a Down-to-Up change
\* of an address that has exactly one open event, started at T0, the duration
\* it computes at time T1 is T1 - T0; the write stores that duration in that
\* event, and creates or changes no other event.
C6_ClosureCorrectness ==
    [][ \A c \in Cycles :
          ( /\ pc[c] = "changes"
            /\ CurrentChange(c).to = "Up"
            /\ pc'[c] # "done" )
          => LET a    == CurrentChange(c).address
                 open == OpenEvents(downtimes, a)
             IN  /\ ( changeStep[c] = 1 /\ changeStep'[c] = 2
                      /\ Cardinality(open) = 1 )
                    => /\ latestDowntime'[c].id \in open
                       /\ latestDowntime'[c].duration =
                            now - downtimes[a][latestDowntime'[c].id].timestamp
                       /\ downtimes' = downtimes
                 /\ ( changeStep[c] = 2 /\ changeIdx'[c] # changeIdx[c]
                      /\ open = { latestDowntime[c].id } )
                    => /\ downtimes'[a] =
                            [ downtimes[a] EXCEPT ![latestDowntime[c].id].duration
                                = latestDowntime[c].duration ]
                       /\ OpenEvents(downtimes', a) = {}
                       /\ \A x \in Addr \ {a} : downtimes'[x] = downtimes[x]
      ]_vars

\* C6 witness: the only event of an address, opened at time 0, was closed at
\* time 1 with duration 1, and the address is Up again
C6_Witness ==
    \E a \in Addr :
        /\ Len(downtimes[a]) = 1
        /\ downtimes[a][1].timestamp = 0
        /\ downtimes[a][1].duration = 1
        /\ ips[a].present /\ ips[a].status = "Up"

\* C7. Idempotent no-op: for a target whose status a cycle read as Up and
\* whose outcome is alive=true, the cycle records no transition, and no step
\* of its reconciliation changes downtimeCount, lastDowntime or any downtime
\* event of the address; the bulk update leaves the status Up.
C7_IdempotentNoOp ==
    [][ \A c \in Cycles : ReconcileStep(c) =>
          \A i \in 1..Len(results[c]) :
            LET a == results[c][i].address IN
            ( currentStatusMap[c][a] = "Up" /\ results[c][i].alive )
            => /\ \A k \in 1..Len(statusChanges[c]) :
                    statusChanges[c][k].address # a
               /\ ips'[a].present = ips[a].present
               /\ ips'[a].downtimeCount = ips[a].downtimeCount
               /\ ips'[a].lastDowntime = ips[a].lastDowntime
               /\ downtimes'[a] = downtimes[a]
               /\ ( BulkStep(c) /\ ips[a].present )
                  => /\ ips'[a].status = "Up"
                     /\ ips'[a].lastChecked = now
      ]_vars

\* C7 witness: the second cycle has reconciled without any status change, an
\* address it found alive is Up with lastChecked written at time 1 and its
\* counter untouched
C7_Witness ==
    /\ pc[2] = "done" /\ pc[1] = "done"
    /\ result[2].error = "null"
    /\ result[2].changes = 0
    /\ result[2].up = result[2].total
    /\ \E a \in Addr :
         /\ ips[a].present /\ ips[a].status = "Up"
         /\ ips[a].lastChecked = 1
         /\ ips[a].downtimeCount = 0
         /\ ips[a].lastDowntime = NULL

\* C8. Retry exhaustion: a batch whose worker failed on all retries + 1
\* attempts has settled with one outcome per address of the batch, each with
\* alive = false and an error text; and a cycle with such a batch returns a
\* value with processed = total.
C8_RetryExhaustion ==
    \A c \in Cycles :
        /\ \A b \in 1..Len(batchState[c]) :
             batchState[c][b].failed = DefaultRetries + 1
             => /\ batchState[c][b].status = "settled"
                /\ Len(batchState[c][b].out) = Len(batches[c][b])
                /\ \A i \in 1..Len(batches[c][b]) :
                     /\ batchState[c][b].out[i].address = batches[c][b][i]
                     /\ ~batchState[c][b].out[i].alive
                     /\ batchState[c][b].out[i].error # "null"
        /\ ( pc[c] = "done" /\ exhausted[c] )
           => /\ settled[c] = "fulfilled"
              /\ result[c].processed = result[c].total

\* C8 witness: a cycle over two addresses, one of whose batches used up its
\* retries, has returned its counts: two processed of two, at least one down
C8_Witness ==
    \E c \in Cycles :
        /\ pc[c] = "done"
        /\ exhausted[c]
        /\ result[c].error = "null"
        /\ result[c].total = 2
        /\ result[c].processed = 2
        /\ result[c].down >= 1

\* C9. runPingCycle never rejects: the promise of every call is pending or
\* fulfilled, and fulfilled once the call is over.
C9_NeverRejects ==
    \A c \in Cycles :
        /\ settled[c] # "rejected"
        /\ pc[c] = "done" => settled[c] = "fulfilled"

\* C9 witness: a call in which a storage call failed is over, and its value
\* carries the error
C9_Witness ==
    \E c \in Cycles :
        /\ pc[c] = "done"
        /\ result[c].error # "null"
        /\ failures > 0

\* C10. Barrier: while a call is inside updatePingResults every batch of the
\* call has settled, and the outcome list is the settled results of all of
\* its batches, a full one for each.
C10_Barrier ==
    \A c \in Cycles :
        Reconciling(c) =>
            /\ Len(batchState[c]) = Len(batches[c])
            /\ AllSettled(c)
            /\ results[c] = FlatResults(c)
            /\ \A b \in 1..Len(batches[c]) :
                 Len(batchState[c][b].out) = Len(batches[c][b])

\* C10 witness: the bulk update of a cycle of two batches is pending; one
\* batch settled by a worker's results on its first attempt, the other by a
\* worker's results after one failed attempt
C10_Witness ==
    \E c \in Cycles :
        /\ pc[c] = "bulk"
        /\ Len(batches[c]) = 2
        /\ \E b \in 1..2 :
             /\ batchState[c][b].failed = 1
             /\ batchState[c][b].out[1].error # "Worker thread failed after retries"
        /\ \E b \in 1..2 : batchState[c][b].failed = 0

\* the sizes of a list of batches
SizesOf(bs) == [ k \in 1..Len(bs) |-> Len(bs[k]) ]

\* C13. Partitioner exactness: for a list of N >= 1 targets, maxWorkers >= 1
\* and maxBatchSize >= 1, with workerCount = min(maxWorkers,
\* ceil(N / maxBatchSize)) and batchSize = ceil(N / workerCount), the batches
\* put end to end are the target list (consecutive slices, every target once,
\* in order), every batch but the last has batchSize targets, the last has
\* at least one, and there are at most workerCount batches; for N = 130,
\* maxWorkers = 4, maxBatchSize = 50 the sizes are 44, 44, 42.
C13_PartitionerExactness ==
    partitionOut # << >> =>
        LET N           == partitionArgs.n
            ratio       == (N + partitionArgs.maxBatchSize - 1)
                             \div partitionArgs.maxBatchSize
            workerCount == IF partitionArgs.maxWorkers < ratio
                           THEN partitionArgs.maxWorkers ELSE ratio
            batchSize   == (N + workerCount - 1) \div workerCount
            count       == Len(partitionOut)
        IN  /\ Flat(partitionOut) = TargetList(N)
            /\ \A k \in 1..(count - 1) : Len(partitionOut[k]) = batchSize
            /\ Len(partitionOut[count]) >= 1
            /\ count <= workerCount
            /\ partitionArgs = DefaultCase
               => SizesOf(partitionOut) = << 44, 44, 42 >>

\* C13 witness: the 130 targets of the default case were split in three
\* batches, the last one smaller than the others
C13_Witness ==
    /\ partitionArgs = DefaultCase
    /\ Len(partitionOut) = 3
    /\ Len(partitionOut[3]) < Len(partitionOut[1])

\* the error text of the outcomes made up for a batch without result
FailedAfterRetries == "Worker thread failed after retries"

\* batch b of call c has used up its attempts
BatchExhausted(c, b) == batchState[c][b].failed = DefaultRetries + 1

\* C11. Partition failure isolation: the step in which a batch uses up its
\* retries leaves the call waiting and changes no other batch of the call
\* (none is aborted, none is retried); a batch that settled with its worker's
\* results keeps them until the call returns; and the call reconciles, for
\* every batch that did not fail, exactly the outcomes its worker posted,
\* while the made-up unreachable outcomes are those of the failed batch only.
C11_FailureIsolation ==
    [][ \A c \in Cycles : \A b \in 1..Len(batchState[c]) :
          /\ ( /\ batchState[c][b].status = "running"
               /\ Len(batchState'[c]) = Len(batchState[c])
               /\ BatchExhausted(c, b)' )
             => /\ pc'[c] = "awaiting"
                /\ settled'[c] = "pending"
                /\ \A k \in 1..Len(batchState[c]) :
                     k # b => batchState'[c][k] = batchState[c][k]
          /\ ( /\ batchState[c][b].status = "settled"
               /\ ~BatchExhausted(c, b) )
             => /\ batchState'[c] # << >> =>
                     batchState'[c][b] = batchState[c][b]
                /\ \A i \in 1..Len(batchState[c][b].out) :
                     batchState[c][b].out[i].error # FailedAfterRetries
          /\ ( pc[c] = "awaiting" /\ Reconciling(c)' )
             => /\ results'[c] = FlatResults(c)
                /\ batchState'[c] = batchState[c]
      ]_vars

\* C11 witness: a call with two batches reconciles; the first batch used up
\* its retries and its address is reported unreachable with the made-up
\* error, the second settled at its first attempt with an address alive
C11_Witness ==
    \E c \in Cycles :
        /\ Reconciling(c)
        /\ Len(batchState[c]) = 2
        /\ BatchExhausted(c, 1)
        /\ batchState[c][2].failed = 0
        /\ results[c][1].error = FailedAfterRetries
        /\ results[c][2].alive
        /\ results[c][2].error = "null"

\* C12. Retry budget: a batch is never at more than its third attempt
\* (at most DefaultRetries + 1 attempts fail, and a running batch has failed
\* at most DefaultRetries times); every tracked worker is the one of the
\* current attempt of a running batch, so an attempt starts only when the
\* one before it has failed; the attempt number grows by one per failure;
\* and a batch that has settled makes no further attempt.
C12_RetryBudget ==
    [][ /\ \A w \in activeWorkers :
             /\ w[3] <= DefaultRetries + 1
             /\ w[2] \in 1..Len(batchState[w[1]])
             /\ batchState[w[1]][w[2]].status = "running"
             /\ w = WorkerOf(w[1], w[2])
        /\ \A c \in Cycles : \A b \in 1..Len(batchState[c]) :
             /\ batchState[c][b].failed <= DefaultRetries + 1
             /\ batchState[c][b].status = "running"
                => /\ batchState[c][b].failed <= DefaultRetries
                   /\ batchState[c][b].failed + batchState[c][b].retries
                        = DefaultRetries
                   /\ WorkerOf(c, b) \in activeWorkers
             /\ ( batchState[c][b].status = "running"
                  /\ batchState'[c] # << >> )
                => \/ batchState'[c][b] = batchState[c][b]
                   \/ batchState'[c][b].status = "settled"
                   \/ /\ batchState'[c][b].failed
                           = batchState[c][b].failed + 1
                      /\ WorkerOf(c, b) \notin activeWorkers'
             /\ ( batchState[c][b].status = "settled"
                  /\ batchState'[c] # << >> )
                => /\ batchState'[c][b] = batchState[c][b]
                   /\ \A w \in activeWorkers' :
                        << w[1], w[2] >> # << c, b >>
      ]_vars

\* C12 witness: a batch settled with its worker's results at the third
\* attempt, after two failed attempts
C12_Witness ==
    \E c \in Cycles : \E b \in 1..Len(batchState[c]) :
        /\ batchState[c][b].status = "settled"
        /\ batchState[c][b].failed = DefaultRetries
        /\ batchState[c][b].retries = 0
        /\ batchState[c][b].out[1].error # FailedAfterRetries

\* call d has returned its counts, and they say that every target it
\* loaded was found alive (up = TRUE) or that every one was found not alive
CompletedAll(d, up) ==
    /\ pc[d] = "done"
    /\ result[d].error = "null"
    /\ result[d].total > 0
    /\ IF up THEN result[d].up = result[d].total
             ELSE result[d].down = result[d].total

\* C14. Status freshness: when a cycle completes, every target of its
\* outcome set that still exists has status Up if its outcome was alive and
\* Down otherwise; and the status so stored is not that of an older cycle
\* than the last completed one: no cycle started later has already completed
\* with the other outcome for the target. (The later cycle's outcomes are
\* read off its counts, for runs without createIP or deleteIP, in which every
\* cycle loads the same targets.)
C14_StatusFreshness ==
    [][ \A c \in Cycles : BulkStep(c) =>
          \A i \in 1..Len(results[c]) :
            LET a == results[c][i].address IN
            ips'[a].present =>
              /\ ips'[a].status = NewStatus(results[c][i])
              /\ \A d \in Cycles :
                   ( d > c /\ httpOps = 0 )
                   => /\ CompletedAll(d, TRUE) => results[c][i].alive
                      /\ CompletedAll(d, FALSE) => ~results[c][i].alive
      ]_vars

\* C16. Concurrent cycle isolation: while a call of runPingCycle is inside
\* updatePingResults, every call started before it has returned, so the
\* reconciliation of cycle N + 1 does not start before that of cycle N is
\* over.
C16_ReconciliationsInOrder ==
    \A c, d \in Cycles :
        ( c < d /\ Reconciling(d) ) => pc[c] = "done"

\* the step is a storage call of call c rejecting: the call returns
FailStep(c) ==
    /\ pc[c] # "done"
    /\ pc'[c] = "done"
    /\ failures' = failures + 1

\* call c has started a worker
HasSpawned(c) == batchState[c] # << >>

\* call c has carried out a write of a status change
HasWritten(c) ==
    /\ pc[c] \in { "changes", "bulk" }
    /\ \/ pc[c] = "changes" /\ changeStep[c] = 2
       \/ \E k \in 1..Len(statusChanges[c]) :
            k < changeIdx[c] /\ Actionable(statusChanges[c][k])

\* what a failing call leaves behind: a fulfilled promise with a failed
\* result, the collections as they were, the timer and the other calls alone
FailsCleanly(c) ==
    /\ settled'[c] = "fulfilled"
    /\ result'[c].error # "null"
    /\ result'[c].total = 0 /\ result'[c].processed = 0
    /\ ips' = ips /\ downtimes' = downtimes
    /\ activeWorkers' = activeWorkers
    /\ pingInterval' = pingInterval /\ nextCycle' = nextCycle
    /\ \A d \in Cycles \ {c} : pc'[d] = pc[d]

\* C20 as stated. A failed cycle never halts the schedule: a cycle that
\* fails has spawned no worker and written nothing, returns a failed result,
\* and leaves the timer armed for the next cycle.
C20_FailedCycleWroteNothing ==
    [][ \A c \in Cycles : FailStep(c) =>
          /\ ~HasSpawned(c)
          /\ ~HasWritten(c)
          /\ FailsCleanly(c)
      ]_vars

\* C20 as amended. A cycle that fails because the target list cannot be
\* read has spawned no worker and written nothing, returns a failed result
\* (total 0, processed 0, the error), and leaves the timer and the other
\* calls as they were, so that the next timer fire starts a cycle.
C20_FailedLoadWroteNothing ==
    [][ \A c \in Cycles : ( FailStep(c) /\ pc[c] = "loading" ) =>
          /\ ~HasSpawned(c)
          /\ ~HasWritten(c)
          /\ \A w \in activeWorkers : w[1] # c
          /\ FailsCleanly(c)
          /\ result'[c].error = "IP.find failed"
      ]_vars

\* C20 witness: the first cycle failed reading the target list; the timer
\* then started the second one, which pinged the two targets, found one
\* alive and one not, and returned its counts
C20_Witness ==
    /\ pc[1] = "done" /\ result[1].error = "IP.find failed"
    /\ pc[2] = "done" /\ result[2].error = "null"
    /\ result[2].total = 2 /\ result[2].processed = 2
    /\ result[2].up = 1 /\ result[2].down = 1
    /\ \E a \in Addr : ips[a].status = "Down" /\ ips[a].lastChecked = 1
    /\ pingInterval = "armed"

\* C15. Partial reconciliation failure is non-fatal: when the bulk status
\* update of a cycle fails for some addresses and not for the others, the
\* updates of the others are applied, and the cycle returns a success result
\* (no error) with its counts.
C15_PartialFailureNonFatal ==
    [][ \A c \in Cycles : \A failing \in SUBSET Addr :
          ( /\ pc[c] = "bulk"
            /\ FailStep(c)
            /\ failing # {}
            /\ \E i \in 1..Len(results[c]) :
                 results[c][i].address \notin failing
            /\ ips' = ApplyBulk(ips, Without(results[c], failing), now) )
          => /\ settled'[c] = "fulfilled"
             /\ result'[c].error = "null"
             /\ result'[c].total = Len(ipAddresses[c])
      ]_vars

\* the fields of a target that the reconciliation maintains
Maintained(row) ==
    << row.status, row.lastChecked, row.responseTime, row.downtimeCount,
       row.lastDowntime >>

\* C19. Sole writer: a step that changes the status, lastChecked,
\* responseTime, downtimeCount or lastDowntime of a target that exists before
\* and after it, or the duration of a downtime event, is a step of a ping
\* cycle's reconciliation.
C19_SoleWriter ==
    [][ \A a \in Addr :
          ( \/ /\ ips[a].present /\ ips'[a].present
               /\ Maintained(ips'[a]) # Maintained(ips[a])
            \/ \E i \in 1..Len(downtimes[a]) :
                 /\ i <= Len(downtimes'[a])
                 /\ downtimes'[a][i].duration # downtimes[a][i].duration )
          => \E c \in Cycles : ReconcileStep(c)
      ]_vars

\* a worker started by the ping service has neither answered nor failed
WorkerRunning(c, b) ==
    /\ b \in 1..Len(batchState[c])
    /\ batchState[c][b].status = "running"

\* C17. terminateWorkers drains in-flight work: in the step in which the
\* promise of terminateWorkers resolves no worker of the ping service is left
\* running, and from then on no batch of a cycle starts a new attempt (a
\* worker killed by the termination causes no retry with a new worker).
C17_TerminateDrains ==
    [][ /\ ( shutdown = "terminating" /\ shutdown' = "closing" )
           => \A c \in Cycles : \A b \in 1..NumAddr : ~WorkerRunning(c, b)'
        /\ ( shutdown = "closing" /\ shutdown' = "closing" )
           => \A c \in Cycles : \A b \in 1..NumAddr :
                ( WorkerRunning(c, b) /\ WorkerRunning(c, b)' )
                => batchState'[c][b].failed = batchState[c][b].failed
      ]_vars

\* C18. Shutdown ordering: when gracefulShutdown has begun, the interval
\* timer is not armed at the moment worker termination starts, and from then
\* on no call of runPingCycle is started.
C18_ShutdownOrdering ==
    [][ /\ ( shutdown = "none" /\ shutdown' # "none" )
           => pingInterval' # "armed"
        /\ shutdown # "none"
           => /\ nextCycle' = nextCycle
              /\ \A c \in Cycles : pc[c] = "idle" => pc'[c] = "idle"
      ]_vars

\* the step is IP.find({}) of call c returning
LoadStep(c) == pc[c] = "loading" /\ pc'[c] # "loading" /\ failures' = failures

\* C21. Empty target set: when the target list a cycle loads is empty, the
\* cycle returns at once with total = 0 and processed = 0 and no error; it
\* starts no worker and makes no batch, and the step writes nothing to the
\* targets or the downtime events.
C21_EmptyTargetSet ==
    [][ \A c \in Cycles : ( LoadStep(c) /\ FindAll(ips) = << >> ) =>
          /\ pc'[c] = "done"
          /\ settled'[c] = "fulfilled"
          /\ result'[c].total = 0 /\ result'[c].processed = 0
          /\ result'[c].error = "null"
          /\ batchState'[c] = << >>
          /\ activeWorkers' = activeWorkers
          /\ \A w \in activeWorkers' : w[1] # c
          /\ ips' = ips /\ downtimes' = downtimes
      ]_vars

\* C21 witness: no target is registered and the first cycle has returned
\* zero counts, with no worker tracked and no downtime event
C21_Witness ==
    /\ \A a \in Addr : ~ips[a].present
    /\ pc[1] = "done"
    /\ result[1].total = 0 /\ result[1].processed = 0
    /\ result[1].error = "null"
    /\ activeWorkers = {}
    /\ \A a \in Addr : downtimes[a] = << >>

\* C22. First-ever check: for a target whose status a cycle read as Unknown
\* (never Up or Down before), the cycle records no transition whatever the
\* outcome is: it is not among the status changes, and no step of the
\* reconciliation opens or changes a downtime event of the address or
\* changes its downtimeCount or lastDowntime.
C22_FirstEverCheck ==
    [][ \A c \in Cycles : ReconcileStep(c) =>
          \A i \in 1..Len(results[c]) :
            LET a == results[c][i].address IN
            currentStatusMap[c][a] = "Unknown"
            => /\ \A k \in 1..Len(statusChanges[c]) :
                    statusChanges[c][k].address # a
               /\ downtimes'[a] = downtimes[a]
               /\ ( ips[a].present /\ ips'[a].present )
                  => /\ ips'[a].downtimeCount = ips[a].downtimeCount
                     /\ ips'[a].lastDowntime = ips[a].lastDowntime
      ]_vars

\* call c is about to handle a Down-to-Up change of an address that has no
\* open downtime event
ClosingNothing(c) ==
    /\ pc[c] = "changes"
    /\ changeStep[c] = 1
    /\ CurrentChange(c).from = "Down"
    /\ CurrentChange(c).to = "Up"
    /\ OpenEvents(downtimes, CurrentChange(c).address) = {}

\* C23. Close with nothing open: when reconciliation handles a Down-to-Up
\* change of an address that has no open downtime event, the step creates
\* and modifies no downtime event and is no error (the call goes on to its
\* next change or to the bulk update, its promise pending); and the bulk
\* update of a call sets every such target that exists to Up and returns
\* counts without error.
C23_CloseWithNothingOpen ==
    [][ \A c \in Cycles :
          /\ ( ClosingNothing(c) /\ ReconcileStep(c) )
             => /\ downtimes' = downtimes
                /\ ips' = ips
                /\ pc'[c] \in { "changes", "bulk" }
                /\ changeIdx'[c] > changeIdx[c]
                /\ settled'[c] = "pending"
          /\ BulkStep(c)
             => \A k \in 1..Len(statusChanges[c]) :
                  LET ch == statusChanges[c][k] IN
                  ( ch.from = "Down" /\ ch.to = "Up" /\ ips'[ch.address].present )
                  => /\ ips'[ch.address].status = "Up"
                     /\ result'[c].error = "null"
                     /\ result'[c].changes = Len(statusChanges[c])
      ]_vars

\* C23 witness: a call has handled the Down-to-Up change of an address that
\* has no downtime event at all, and its bulk update is pending
C23_Witness ==
    \E c \in Cycles : \E k \in 1..Len(statusChanges[c]) :
        /\ pc[c] = "bulk"
        /\ statusChanges[c][k].from = "Down"
        /\ statusChanges[c][k].to = "Up"
        /\ downtimes[statusChanges[c][k].address] = << >>

\* ------------------------------------------------- start during an outage
\* a target an earlier run left Down: its outage was recorded at time 0 by
\* one open event, counted once
DownRow == [ NewRow(0) EXCEPT !.status = "Down", !.downtimeCount = 1,
                              !.lastDowntime = 0 ]

\* the event recordDowntime created for that outage
OpenEvent == [ timestamp |-> 0, duration |-> NULL ]

\* the collections a run finds when it starts while targets are down
OutageInit ==
    /\ ips \in [ Addr -> InitRows \cup { DownRow } ]
    /\ downtimes = [ a \in Addr |->
          IF ips[a] = DownRow THEN << OpenEvent >> ELSE << >> ]
    /\ InitCalls
    /\ NoPartitionRun
    /\ NoWorkerRun

\* the engine as server.js drives it, with storage and workers that do not
\* fail and no request of the API
OutageNext ==
    \/ StartPingService
    \/ TimerFire
    \/ \E c \in Cycles : LoadTargets(c)
    \/ \E c \in Cycles : \E b \in 1..NumAddr : WorkerMessage(c, b)
    \/ \E c \in Cycles : FindCurrentStatus(c)
    \/ \E c \in Cycles : RecordDowntime(c)
    \/ \E c \in Cycles : IncDowntimeCount(c)
    \/ \E c \in Cycles : FindLatestDowntime(c)
    \/ \E c \in Cycles : WriteDuration(c)
    \/ \E c \in Cycles : BulkUpdateStatus(c)

OutageSpec == OutageInit /\ [][OutageNext]_vars

\* C24. A downtime event's duration is set exactly once: it changes from
\* null to a value only in the reconciliation of a Down-to-Up change of its
\* target, and once it is not null no later step writes it again, whichever
\* cycle the step belongs to.
C24_DurationSetOnce ==
    [][ \A a \in Addr : \A i \in 1..Len(downtimes[a]) :
          /\ i <= Len(downtimes'[a])
          /\ downtimes[a][i].duration # NULL
             => /\ downtimes'[a][i].duration = downtimes[a][i].duration
                /\ \A c \in Cycles :
                     ~ ( /\ pc[c] = "changes"
                         /\ changeStep[c] = 2
                         /\ changeStep'[c] # 2
                         /\ CurrentChange(c).address = a
                         /\ latestDowntime[c].id = i )
          /\ ( /\ i <= Len(downtimes'[a])
               /\ downtimes[a][i].duration = NULL
               /\ downtimes'[a][i].duration # NULL )
             => \E c \in Cycles :
                  /\ pc[c] = "changes"
                  /\ CurrentChange(c).address = a
                  /\ CurrentChange(c).from = "Down"
                  /\ CurrentChange(c).to = "Up"
      ]_vars

\* the list holds exactly one outcome per address of the batch, in order
OneOutcomePerAddress(out, batch) ==
    /\ Len(out) = Len(batch)
    /\ \A i \in 1..Len(batch) : out[i].address = batch[i]

\* C25. Batch execution is all-or-nothing: every settlement of pingInWorker
\* for a batch either fulfils with a list holding exactly one outcome per
\* address of the batch (the worker is dropped, no failure is counted), or
\* rejects (a worker failure, handled by the catch block); it never fulfils
\* with a list that lacks an outcome for some address.
C25_BatchAllOrNothing ==
    [][ \A c \in Cycles : \A b \in 1..Len(batchState[c]) :
          ( /\ pc[c] = "awaiting"
            /\ batchState[c][b].status = "running"
            /\ WorkerOf(c, b) \notin activeWorkers' )
          => \/ /\ workerFailures' = workerFailures
                /\ batchState'[c][b].status = "settled"
                /\ batchState'[c][b].failed = batchState[c][b].failed
                /\ OneOutcomePerAddress(batchState'[c][b].out, batches[c][b])
             \/ /\ workerFailures' = workerFailures + 1
                /\ batchState'[c][b].failed = batchState[c][b].failed + 1
      ]_vars

\* C25 witness: a worker has posted the outcomes of its batch, and the host
\* of the batch did not answer
C25_Witness ==
    \E c \in Cycles : \E b \in 1..Len(batchState[c]) :
        /\ pc[c] = "awaiting"
        /\ batchState[c][b].status = "settled"
        /\ batchState[c][b].failed = 0
        /\ Len(batches[c][b]) > 0
        /\ OneOutcomePerAddress(batchState[c][b].out, batches[c][b])
        /\ ~batchState[c][b].out[1].alive

\* C26. Worker bound: at every moment the number of worker threads running
\* for the ping service is at most WORKER_COUNT, counting the retries and
\* every call of runPingCycle in progress.
C26_WorkerBound ==
    Cardinality(activeWorkers) <= WORKER_COUNT

\* ------------------------------------------- storage failures, cycle by cycle
\* the engine with cycles that do not overlap and workers that do not fail,
\* and a storage that can reject a call of the cycle
FaultNext ==
    \/ StartPingService
    \/ TimerFireAfterReturn
    \/ \E c \in Cycles : LoadTargets(c)
    \/ \E c \in Cycles : \E b \in 1..NumAddr : WorkerMessage(c, b)
    \/ \E c \in Cycles : FindCurrentStatus(c)
    \/ \E c \in Cycles : RecordDowntime(c)
    \/ \E c \in Cycles : IncDowntimeCount(c)
    \/ \E c \in Cycles : FindLatestDowntime(c)
    \/ \E c \in Cycles : WriteDuration(c)
    \/ \E c \in Cycles : BulkUpdateStatus(c)
    \/ \E c \in Cycles : StorageFail(c)

FaultSpec == Init /\ [][FaultNext]_vars

\* call c is handling an Up-to-Down change, at step s of the loop body
HandlingUpDown(c, s) ==
    /\ pc[c] = "changes"
    /\ changeStep[c] = s
    /\ CurrentChange(c).from = "Up"
    /\ CurrentChange(c).to = "Down"

\* C27. Reconciliation is safe under a storage failure in its middle: when
\* a storage call failed after a downtime event was opened or a counter was
\* incremented for an Up-to-Down transition, the following cycles do not
\* record that transition again: a step that opens an event for an
\* Up-to-Down change finds no open event of the address, and the step that
\* increments the counter for the change finds only the event its own call
\* opened.
C27_SafeUnderStorageFailure ==
    [][ \A c \in Cycles :
          /\ ( /\ HandlingUpDown(c, 1)
               /\ Len(downtimes'[CurrentChange(c).address])
                    > Len(downtimes[CurrentChange(c).address]) )
             => OpenEvents(downtimes, CurrentChange(c).address) = {}
          /\ ( /\ HandlingUpDown(c, 2)
               /\ ips'[CurrentChange(c).address].downtimeCount
                    > ips[CurrentChange(c).address].downtimeCount )
             => OpenEvents(downtimes, CurrentChange(c).address)
                  = { Len(downtimes[CurrentChange(c).address]) }
      ]_vars

\* no worker of batch b of call c is running
NoWorkerOf(workers, c, b) == \A w \in workers : ~ ( w[1] = c /\ w[2] = b )

\* C28. Retry happens only on infrastructure failure: a step of a running
\* batch that is no worker failure settles the batch with the outcomes its
\* worker returned, uses no retry and starts no worker, whatever the
\* outcomes are; and a settled batch is never run again.
C28_RetryOnlyOnInfrastructureFailure ==
    [][ \A c \in Cycles : \A b \in 1..Len(batchState[c]) :
          /\ ( /\ batchState[c][b].status = "running"
               /\ workerFailures' = workerFailures
               /\ b <= Len(batchState'[c])
               /\ batchState'[c][b] # batchState[c][b] )
             => /\ batchState'[c][b].status = "settled"
                /\ batchState'[c][b].retries = batchState[c][b].retries
                /\ batchState'[c][b].failed = batchState[c][b].failed
                /\ NoWorkerOf(activeWorkers', c, b)
          /\ ( /\ batchState[c][b].status = "settled"
               /\ b <= Len(batchState'[c]) )
             => /\ batchState'[c][b] = batchState[c][b]
                /\ NoWorkerOf(activeWorkers', c, b)
      ]_vars

\* C28 witness: the worker of a batch returned outcomes that are all
\* alive=false; the batch is settled with them, its retries untouched, while
\* its call still waits for another batch
C28_Witness ==
    \E c \in Cycles : \E b \in 1..Len(batchState[c]) :
        /\ pc[c] = "awaiting"
        /\ batchState[c][b].status = "settled"
        /\ batchState[c][b].retries = DefaultRetries
        /\ batchState[c][b].failed = 0
        /\ Len(batchState[c][b].out) > 0
        /\ \A i \in 1..Len(batchState[c][b].out) : ~batchState[c][b].out[i].alive
        /\ \E k \in 1..Len(batchState[c]) : batchState[c][k].status = "running"

\* ------------------------------------------------ updatePingResults alone
\* the outcomes a batch can return for an address: pingIP copies the time
\* of the probe whether the host answered or not
Outcomes ==
    { [ address |-> a, alive |-> TRUE, time |-> 1, error |-> "null" ] :
        a \in Addr }
    \cup { [ address |-> a, alive |-> FALSE, time |-> t,
             error |-> "probe error" ] : a \in Addr, t \in { NULL, 1 } }

\* batchResults.flat(): any list of outcomes, an address more than once
\* included
OutcomeLists == UNION { [ 1..n -> Outcomes ] : n \in 1..MaxOutcomes }

\* the first call of runPingCycle at await Promise.all, its one batch
\* fulfilled with the list out
AtBarrier(out) ==
    LET addresses == [ i \in 1..Len(out) |-> out[i].address ] IN
    /\ pc = [ c \in Cycles |-> IF c = 1 THEN "awaiting" ELSE "idle" ]
    /\ ipAddresses = [ c \in Cycles |-> IF c = 1 THEN addresses ELSE << >> ]
    /\ batches = [ c \in Cycles |-> IF c = 1 THEN << addresses >> ELSE << >> ]
    /\ batchState = [ c \in Cycles |->
          IF c = 1 THEN << Returned(FreshBatch, out) >> ELSE << >> ]

\* updatePingResults is about to be called with any list of outcomes, on
\* targets that are unregistered, Up, or Down with their outage recorded
ReconcileInit ==
    /\ ips \in [ Addr -> InitRows \cup { DownRow } ]
    /\ downtimes = [ a \in Addr |->
          IF ips[a] = DownRow THEN << OpenEvent >> ELSE << >> ]
    /\ \E out \in OutcomeLists : AtBarrier(out)
    /\ now = 0
    /\ pingInterval = "armed"
    /\ nextCycle = 2
    /\ settled = [ c \in Cycles |-> "pending" ]
    /\ result = [ c \in Cycles |-> NoResult ]
    /\ results = [ c \in Cycles |-> << >> ]
    /\ currentStatusMap = [ c \in Cycles |-> << >> ]
    /\ statusChanges = [ c \in Cycles |-> << >> ]
    /\ changeIdx = [ c \in Cycles |-> 0 ]
    /\ changeStep = [ c \in Cycles |-> 0 ]
    /\ latestDowntime = [ c \in Cycles |-> NoLatest ]
    /\ failures = 0
    /\ httpOps = 0
    /\ workerFailures = 0
    /\ upDownSeen = [ a \in Addr |-> 0 ]
    /\ before = [ c \in Cycles |-> << >> ]
    /\ exhausted = [ c \in Cycles |-> FALSE ]
    /\ activeWorkers = {}
    /\ shutdown = "none"
    /\ terminating = {}
    /\ lingering = {}
    /\ NoPartitionRun
    /\ NoWorkerRun

\* updatePingResults, one storage call after the other
ReconcileNext ==
    \/ \E c \in Cycles : FindCurrentStatus(c)
    \/ \E c \in Cycles : RecordDowntime(c)
    \/ \E c \in Cycles : IncDowntimeCount(c)
    \/ \E c \in Cycles : FindLatestDowntime(c)
    \/ \E c \in Cycles : WriteDuration(c)
    \/ \E c \in Cycles : BulkUpdateStatus(c)

ReconcileSpec == ReconcileInit /\ [][ReconcileNext]_vars

\* the last outcome of the list for address a
LastOutcome(rs, a) ==
    rs[ CHOOSE i \in 1..Len(rs) :
          /\ rs[i].address = a
          /\ \A j \in (i + 1)..Len(rs) : rs[j].address # a ]

\* C29. Duplicate tolerance: when the outcome list given to reconciliation
\* holds several outcomes for one address, the last of them determines the
\* target's final status, its transition handling and its downtime events:
\* after the bulk update the target has the status of its last outcome, one
\* event was opened for it exactly if it was Up and its last outcome is
\* alive=false, and it has no open event if it ends Up and one if it ends
\* Down.
C29_DuplicateTolerance ==
    [][ \A c \in Cycles : BulkStep(c) =>
          \A a \in DOMAIN currentStatusMap[c] :
            LET last == LastOutcome(results[c], a) IN
            ips'[a].present
            => /\ ips'[a].status = NewStatus(last)
               /\ Len(downtimes'[a]) = before[c][a].events +
                    ( IF currentStatusMap[c][a] = "Up" /\ ~last.alive
                      THEN 1 ELSE 0 )
               /\ Cardinality(OpenEvents(downtimes', a))
                    = ( IF last.alive THEN 0 ELSE 1 )
      ]_vars

\* the outcomes of the list for address a all say alive=false
AllDown(rs, a) ==
    \A i \in 1..Len(rs) : rs[i].address = a => ~rs[i].alive

\* C30. After reconciliation, every target whose outcome in the cycle was
\* alive=false has responseTime null, whatever latency the outcome carried.
C30_ResponseTimeNullWhenDown ==
    [][ \A c \in Cycles : BulkStep(c) =>
          \A a \in DOMAIN currentStatusMap[c] :
            ( ips'[a].present /\ AllDown(results[c], a) )
            => ips'[a].responseTime = NULL
      ]_vars

\* C31. Batch size ceiling: for every N, maxWorkers and maxBatchSize, no
\* batch produced by the partitioning step holds more than maxBatchSize
\* addresses.
C31_BatchSizeCeiling ==
    \A k \in 1..Len(partitionOut) :
        Len(partitionOut[k]) <= partitionArgs.maxBatchSize

\* ------------------------------------------------- pingWorker.js on its own
\* the worker is started with a batch of up to MaxBatch addresses, and the
\* probe of each address answers, does not answer, or throws
WorkerCases ==
    UNION { { [ ipAddresses |-> TargetList(n), probes |-> p ] :
                p \in [ 1..n -> Probes ] } : n \in 1..MaxBatch }

WorkerInit ==
    /\ ips = [ a \in Addr |-> NoRow ]
    /\ InitEngine
    /\ NoPartitionRun
    /\ workerData \in WorkerCases
    /\ posted = << >>

\* pingWorker.js: processIPs() runs and posts its message
RunWorker ==
    /\ workerData # << >>
    /\ posted = << >>
    /\ posted' = processIPs(workerData.ipAddresses, workerData.probes)
    /\ UNCHANGED << ips, downtimes, driver, pc, promise, dispatchLocals,
                    reconcileLocals, budgets, history, activeWorkers,
                    lifecycle, partitioner, workerData, lingering >>

WorkerNext == RunWorker

WorkerSpec == WorkerInit /\ [][WorkerNext]_vars

\* the probe of the i-th address of the worker did not answer or threw
ProbeFailed(i) ==
    workerData.probes[i].throws \/ ~workerData.probes[i].alive

\* C32. Prober containment: inside a worker, a probe that fails or throws
\* for one address is turned into an outcome with alive=false and an error
\* text for that address; the batch does not fail, the outcomes of the other
\* addresses are those of their own probes, and the worker's result holds
\* exactly one outcome per input address.
C32_ProberContainment ==
    posted # << >> =>
        /\ Len(posted) = Len(workerData.ipAddresses)
        /\ \A i \in 1..Len(workerData.ipAddresses) :
              /\ posted[i].address = workerData.ipAddresses[i]
              /\ ProbeFailed(i)
                 => /\ posted[i].alive = FALSE
                    /\ posted[i].error # "null"
              /\ ~ProbeFailed(i)
                 => /\ posted[i].alive = TRUE
                    /\ posted[i].time = workerData.probes[i].time
                    /\ posted[i].error = "null"

\* C32 witness: in a batch of three the probe of the second address threw,
\* the others answered, and the worker posted three outcomes
C32_Witness ==
    /\ posted # << >>
    /\ Len(workerData.ipAddresses) = 3
    /\ workerData.probes[2].throws
    /\ workerData.probes[1].alive
    /\ workerData.probes[3].alive
    /\ ~posted[2].alive
    /\ posted[1].alive
    /\ posted[3].alive

\* ------------------------------------------------- shutdown, with fairness
\* the shutdown as above, where the 10 s timer set by gracefulShutdown fires
\* (or the callback of server.close runs first); nothing makes a terminated
\* worker emit 'exit'
ShutdownLiveSpec ==
    Init /\ [][ShutdownNext]_vars /\ WF_vars(ProcessExit)

\* C33. Shutdown terminates: once a shutdown signal is received the process
\* eventually exits, even when a worker never acknowledges its termination
\* or the HTTP server never finishes closing.
C33_ShutdownTerminates ==
    ( shutdown # "none" ) ~> ( shutdown = "exited" )

\* ------------------------------------------------- cycles, with fairness
\* the worker of the current attempt of batch b is tracked: it has emitted
\* no event yet
HasWorker(c, b) ==
    /\ b \in 1..Len(batchState[c])
    /\ batchState[c][b].status = "running"
    /\ WorkerOf(c, b) \in activeWorkers

\* pingInWorker: the worker's 'exit' with code 0 as its first event: the
\* listener deletes the worker and, the code being 0, neither resolves nor
\* rejects
WorkerExitClean(c, b) ==
    /\ pc[c] = "awaiting"
    /\ HasWorker(c, b)
    /\ activeWorkers' = activeWorkers \ { WorkerOf(c, b) }
    /\ UNCHANGED << ips, downtimes, driver, pc, promise, dispatchLocals,
                    reconcileLocals, budgets, history, lifecycle,
                    partitioner, prober, lingering >>

\* the first event of the worker of batch b: its message, an 'error', or an
\* 'exit' with a bad code or with code 0
WorkerEvent(c, b) ==
    /\ HasWorker(c, b)
    /\ \/ WorkerMessage(c, b)
       \/ WorkerError(c, b)
       \/ WorkerExit(c, b)
       \/ WorkerExitClean(c, b)

\* the engine with cycles that do not overlap, a storage that does not
\* fail, and workers that emit any first event
CycleNext ==
    \/ StartPingService
    \/ TimerFireAfterReturn
    \/ \E c \in Cycles : LoadTargets(c)
    \/ \E c \in Cycles : \E b \in 1..NumAddr : WorkerEvent(c, b)
    \/ \E c \in Cycles : FindCurrentStatus(c)
    \/ \E c \in Cycles : RecordDowntime(c)
    \/ \E c \in Cycles : IncDowntimeCount(c)
    \/ \E c \in Cycles : FindLatestDowntime(c)
    \/ \E c \in Cycles : WriteDuration(c)
    \/ \E c \in Cycles : BulkUpdateStatus(c)

\* every storage call returns, and every tracked worker emits an event
CycleFairness ==
    \A c \in Cycles :
        /\ WF_vars(LoadTargets(c))
        /\ WF_vars(FindCurrentStatus(c))
        /\ WF_vars(RecordDowntime(c))
        /\ WF_vars(IncDowntimeCount(c))
        /\ WF_vars(FindLatestDowntime(c))
        /\ WF_vars(WriteDuration(c))
        /\ WF_vars(BulkUpdateStatus(c))
        /\ \A b \in 1..NumAddr : WF_vars(WorkerEvent(c, b))

CycleLiveSpec == Init /\ [][CycleNext]_vars /\ CycleFairness

\* C34. Cycle termination: every started cycle eventually returns a result,
\* given that storage calls return and every spawned worker eventually emits
\* a message, an error or an exit, an exit with code 0 before any message
\* included.
C34_CycleTermination ==
    \A c \in Cycles : ( pc[c] # "idle" ) ~> ( pc[c] = "done" )

\* ------------------------------------------- from registration onwards
\* every address is unregistered or was just registered: status Unknown, no
\* downtime event
FreshInit ==
    /\ ips \in [ Addr -> { NoRow, NewRow(0) } ]
    /\ InitEngine
    /\ NoPartitionRun
    /\ NoWorkerRun

\* the engine with cycles that do not overlap and a storage that does not
\* fail; workers may fail, targets may be registered, none is deleted or
\* updated through the API
FreshNext ==
    \/ StartPingService
    \/ TimerFireAfterReturn
    \/ \E c \in Cycles : LoadTargets(c)
    \/ \E c \in Cycles : \E b \in 1..NumAddr : WorkerMessage(c, b)
    \/ \E c \in Cycles : \E b \in 1..NumAddr : WorkerError(c, b)
    \/ \E c \in Cycles : FindCurrentStatus(c)
    \/ \E c \in Cycles : RecordDowntime(c)
    \/ \E c \in Cycles : IncDowntimeCount(c)
    \/ \E c \in Cycles : FindLatestDowntime(c)
    \/ \E c \in Cycles : WriteDuration(c)
    \/ \E c \in Cycles : BulkUpdateStatus(c)
    \/ \E a \in Addr : CreateIP(a)

FreshSpec == FreshInit /\ [][FreshNext]_vars

\* C35. With serial cycles, no storage failure, no external write to the
\* status fields and no deregistration, starting from targets with status
\* Unknown and no downtime events: whenever no cycle is in progress, a
\* target has exactly one open downtime event if its status is Down and
\* none if its status is Up or Unknown.
C35_OpenEventIffDown ==
    Quiescent =>
        \A a \in Addr : ips[a].present =>
            Cardinality(OpenEvents(downtimes, a))
              = ( IF ips[a].status = "Down" THEN 1 ELSE 0 )

\* C35 witness: between cycles, one target is Down with its one open event
\* and the other is Up after an outage that was closed
C35_Witness ==
    /\ Quiescent
    /\ \E a \in Addr :
         /\ ips[a].present
         /\ ips[a].status = "Down"
         /\ Cardinality(OpenEvents(downtimes, a)) = 1
    /\ \E a \in Addr :
         /\ ips[a].present
         /\ ips[a].status = "Up"
         /\ Len(downtimes[a]) = 1
         /\ OpenEvents(downtimes, a) = {}

\* call c holds an outcome for address a, which had no document when the
\* call read the current status, and has none now
Deregistered(c, a) ==
    /\ a \in DOMAIN currentStatusMap[c]
    /\ currentStatusMap[c][a] = "undefined"
    /\ ~ips[a].present

\* C36. Deregistration during a cycle: when a target is deleted after the
\* cycle loaded the target list and before reconciliation, the steps of the
\* reconciliation and its bulk update open no downtime event for its
\* address, close none, and do not recreate its row.
C36_DeregistrationDuringCycle ==
    [][ \A c \in Cycles : \A a \in Addr :
          ( /\ Deregistered(c, a)
            /\ ReconcileStep(c) \/ BulkStep(c) )
          => /\ downtimes'[a] = downtimes[a]
             /\ ips'[a] = ips[a]
             /\ ~ips'[a].present
             /\ \A k \in 1..Len(statusChanges[c]) :
                  statusChanges[c][k].address # a
      ]_vars

\* C36 witness: a call that loaded two targets is at its bulk update with an
\* outcome alive=false for an address that was deleted before it read the
\* current status
C36_Witness ==
    \E c \in Cycles : \E a \in Addr :
        /\ pc[c] = "bulk"
        /\ Deregistered(c, a)
        /\ \E i \in 1..Len(ipAddresses[c]) : ipAddresses[c][i] = a
        /\ \E i \in 1..Len(results[c]) :
             results[c][i].address = a /\ ~results[c][i].alive

\* the step is one of call c of runPingCycle
CallStep(c) ==
    << pc[c], batchState[c], changeIdx[c], changeStep[c] >>'
      # << pc[c], batchState[c], changeIdx[c], changeStep[c] >>

\* call c has loaded its target list, and address a is not in it
NotIncluded(c, a) ==
    /\ pc[c] \in { "awaiting", "changes", "bulk" }
    /\ \A i \in 1..Len(ipAddresses[c]) : ipAddresses[c][i] # a

\* C37. Reconciliation changes only addresses present in its outcome list:
\* no step of a call changes the row or the downtime events of an address
\* that was not in the list the call loaded, so a target registered after
\* that keeps status Unknown, downtimeCount 0 and no downtime events.
C37_OnlyListedAddresses ==
    [][ \A c \in Cycles : \A a \in Addr :
          ( NotIncluded(c, a) /\ CallStep(c) )
          => /\ ips'[a] = ips[a]
             /\ downtimes'[a] = downtimes[a]
      ]_vars

\* C37 witness: a call that opened a downtime event for a target of its
\* list is at its bulk update, and a target registered after the call
\* loaded its list still has status Unknown, downtimeCount 0 and no event
C37_Witness ==
    \E c \in Cycles : \E a \in Addr :
        /\ pc[c] = "bulk"
        /\ NotIncluded(c, a)
        /\ Len(statusChanges[c]) > 0
        /\ \E x \in Addr : Len(downtimes[x]) > 0
        /\ ips[a].present
        /\ ips[a].status = "Unknown"
        /\ ips[a].downtimeCount = 0
        /\ downtimes[a] = << >>

\* C38. lastDowntime of a target is written only by the reconciliation of a
\* transition into Down of that target: a step of a call that changes it is
\* the update made for a change of that address to Down, from a status that
\* was not Down; a reconciliation in which the target stays Up, stays Down
\* or goes from Down to Up leaves it unchanged.
C38_LastDowntimeOnlyOnDown ==
    [][ \A c \in Cycles : \A a \in Addr :
          ( /\ CallStep(c)
            /\ ips'[a].lastDowntime # ips[a].lastDowntime )
          => /\ pc[c] = "changes"
             /\ CurrentChange(c).address = a
             /\ CurrentChange(c).to = "Down"
             /\ CurrentChange(c).from # "Down"
             /\ ips'[a].lastDowntime = now
      ]_vars

\* C38 witness: both cycles are over; the target went Down in the first and
\* was found down again in the second, one interval later, which left
\* lastDowntime at the time of the first
C38_Witness ==
    /\ Quiescent
    /\ now = 1
    /\ result[1].changes > 0
    /\ result[2].processed > 0
    /\ result[2].changes = 0
    /\ \E a \in Addr :
         /\ ips[a].present
         /\ ips[a].status = "Down"
         /\ ips[a].lastChecked = 1
         /\ ips[a].lastDowntime = 0
         /\ Len(downtimes[a]) = 1

\* C39. In-flight registry: activeWorkers holds a worker from its spawn
\* until its first message, error or exit event (the worker of every batch
\* attempt that is still awaited is in the set, and the set holds no other
\* worker), and whenever no cycle is in progress the set is empty.
C39_InFlightRegistry ==
    Alive =>
        /\ \A c \in Cycles : \A b \in 1..Len(batchState[c]) :
              ( pc[c] = "awaiting" /\ batchState[c][b].status = "running" )
              => WorkerOf(c, b) \in activeWorkers
        /\ \A w \in activeWorkers : IsCurrent(w)
        /\ Quiescent => activeWorkers = {}

\* ------------------------------------------- the events of one worker
\* mutant of LateSettle: the reject of a late 'exit' runs the catch block of
\* the batch once more
LateSettleRejects(w) ==
    IF IsCurrent(<< w[1], w[2], batchState[w[1]][w[2]].failed + 1 >>)
    THEN CatchBatch(w[1], w[2])
    ELSE UNCHANGED << batchState, exhausted >>

\* pingInWorker: resolve or reject called on a promise that is settled
\* already does nothing
LateSettle(w) == UNCHANGED << batchState, exhausted >>

\* the worker posts its results and goes on to exit
FirstMessage(c, b) ==
    /\ HasWorker(c, b)
    /\ MessageHandled(c, b)
    /\ lingering' = lingering \cup { WorkerOf(c, b) }

\* the worker emits 'error', to be followed by its 'exit'
FirstError(c, b) ==
    /\ HasWorker(c, b)
    /\ RejectHandled(c, b)
    /\ lingering' = lingering \cup { WorkerOf(c, b) }

\* the worker exits with a non-zero code before any other event
FirstExit(c, b) ==
    /\ HasWorker(c, b)
    /\ RejectHandled(c, b)
    /\ UNCHANGED lingering

\* the 'exit' of a worker whose message or 'error' was handled before, with
\* any code: the listener deletes the worker again and, for a non-zero
\* code, calls reject on the settled promise
LateExit(w) ==
    /\ w \in lingering
    /\ lingering' = lingering \ { w }
    /\ activeWorkers' = activeWorkers \ { w }
    /\ LateSettle(w)
    /\ UNCHANGED << ips, downtimes, driver, pc, promise, ipAddresses, batches,
                    reconcileLocals, budgets, upDownSeen, before, lifecycle,
                    partitioner, prober >>

\* the engine with cycles that do not overlap and a storage that does not
\* fail, and every event of every worker
EventsNext ==
    \/ StartPingService
    \/ TimerFireAfterReturn
    \/ \E c \in Cycles : LoadTargets(c)
    \/ \E c \in Cycles : \E b \in 1..NumAddr : FirstMessage(c, b)
    \/ \E c \in Cycles : \E b \in 1..NumAddr : FirstError(c, b)
    \/ \E c \in Cycles : \E b \in 1..NumAddr : FirstExit(c, b)
    \/ \E w \in lingering : LateExit(w)
    \/ \E c \in Cycles : FindCurrentStatus(c)
    \/ \E c \in Cycles : RecordDowntime(c)
    \/ \E c \in Cycles : IncDowntimeCount(c)
    \/ \E c \in Cycles : FindLatestDowntime(c)
    \/ \E c \in Cycles : WriteDuration(c)
    \/ \E c \in Cycles : BulkUpdateStatus(c)

EventsSpec == Init /\ [][EventsNext]_vars

\* C40. Settle-once: for one worker, whatever the order in which its
\* message, error and exit events arrive, the batch attempt settles exactly
\* once, with the first of them; a later event (a non-zero exit after a
\* message, an exit after an error) changes neither the outcomes returned
\* nor the number of retries made, and counts as no further failure.
C40_SettleOnce ==
    [][ /\ \A w \in lingering : w \notin lingering'
             => /\ batchState' = batchState
                /\ workerFailures' = workerFailures
                /\ exhausted' = exhausted
                /\ activeWorkers' = activeWorkers
                /\ pc' = pc
        /\ \A c \in Cycles : \A b \in 1..Len(batchState[c]) :
             ( /\ pc[c] = "awaiting"
               /\ b <= Len(batchState'[c])
               /\ batchState'[c][b] # batchState[c][b] )
             => /\ HasWorker(c, b)
                /\ WorkerOf(c, b) \notin activeWorkers'
      ]_vars

\* C40 witness: the first worker of a batch emitted 'error' and then
\* 'exit'; the batch is in its second attempt with one retry used, and the
\* worker of another batch posted its outcomes and exited
C40_Witness ==
    \E c \in Cycles : \E b, k \in 1..Len(batchState[c]) :
        /\ pc[c] = "awaiting"
        /\ batchState[c][b].status = "running"
        /\ batchState[c][b].failed = 1
        /\ batchState[c][b].retries = DefaultRetries - 1
        /\ batchState[c][k].status = "settled"
        /\ batchState[c][k].failed = 0
        /\ lingering = {}
        /\ activeWorkers = { << c, b, 2 >> }

====
